---------------------------- MODULE Spec2Model ----------------------------
(***************************************************************************)
(* Allocation profiler of the Julia runtime (gc-alloc-profiler).  The      *)
(* repository holds several revisions of the profiler; each revision that  *)
(* a property is about is modelled as its own state machine over its own   *)
(* variable, with one specification per machine:                           *)
(*                                                                         *)
(*   Spec       the sampling revision (src/unnamed/part_002): a static     *)
(*              AllocProfile, the g_alloc_profile_enabled gate, skip_every *)
(*              sampling, the value-to-type index and the free counts.     *)
(*   SpecTrie   the trie revision (src/unnamed/part_005): the hook is      *)
(*              gated by g_alloc_profile_out, resolves and filters the     *)
(*              stack (get_stack) and inserts it with trie_insert.         *)
(*   SpecGraph  the call-graph revision (src/src/gc-alloc-profiler.cpp,    *)
(*              lines 1-444): record_alloc builds nodes and call edges     *)
(*              keyed by method; every operation atomic.                   *)
(*   SpecConcurrent  the call-graph revision with jl_start_alloc_profile   *)
(*              and jl_stop_alloc_profile run statement by statement on    *)
(*              one thread while another thread runs the hook.             *)
(*   SpecReentrant  the sampling revision with the hook entered again      *)
(*              while a first call resolves the type name.                 *)
(*   SpecThreads  the sampling revision with two threads in the hook,      *)
(*              every access to the shared profile its own step.           *)
(*   SpecSerialize  the call-graph revision, one session after the other,  *)
(*              keeping what each stopped session held and what was        *)
(*              written for it.                                            *)
(*   SpecTypeNames  the hook of the call-graph revision called with every  *)
(*              kind of type handle _type_as_string tells apart.           *)
(*   SpecCapture  the capture of the raw backtrace into its buffer by      *)
(*              get_stack and push_raw_alloc.                              *)
(*   SpecGcReport  the list revision (src/unnamed/part_003, lines 111-324) *)
(*              with the collector's hooks called in every state.          *)
(*   SpecEscape  print_str_escape_dot and print_str_escape_json on strings *)
(*              built one character at a time.                             *)
(*   SpecCache  the frame caches: get_frames of src/unnamed/part_004 and   *)
(*              stacktrace_memoized of AllocProfile.jl, one call a step.   *)
(*   SpecEndToEnd  the events of a session of the trie revision, kept as   *)
(*              well as the AllocResults that write_as_json_help of        *)
(*              stdlib/AllocProfile/src/write_as_json.jl turns into the    *)
(*              structured output at stop.                                 *)
(*                                                                         *)
(* A C++ map is a TLA+ function whose DOMAIN is the set of keys present.   *)
(* A C++ string is a sequence of tokens, so that formatting and the        *)
(* prefix and suffix tests are computed on it.                             *)
(***************************************************************************)
EXTENDS Naturals, Sequences, FiniteSets, TLC

VARIABLES
    sampler,    \* part_002: [g_alloc_profile_enabled, g_alloc_profile, bt_data]
    trie,       \* part_005: [g_alloc_profile_out, g_alloc_profile, profile, ...]
    graph,      \* gc-alloc-profiler.cpp: the same globals, a call graph
    memo,       \* part_004 / AllocProfile.jl: the frame caches
    json,       \* write_as_json.jl: the decoded results and their output
    pc,         \* where each thread is inside an operation
    obs         \* observation of the run: which calls were made and recorded

vars == <<sampler, trie, graph, memo, json, pc, obs>>

\* What each revision's operations leave alone: the other revisions.
NotSampler == <<trie, graph, memo, json>>
NotTrie == <<sampler, graph, memo, json>>
NotGraph == <<sampler, trie, memo, json>>
NotMemo == <<sampler, trie, graph, json>>

(***************************************************************************)
(* Bounds of the model.                                                    *)
(***************************************************************************)
MaxCalls == 4      \* hook calls in one run
MaxStarts == 2     \* calls of jl_start_alloc_profile in one run
MaxSkip == 2       \* largest skip_every handed to start
MaxInserts == 3    \* recorded samples in one run of the trie revision

(***************************************************************************)
(* Inputs.  A value address and a type address are machine words; a raw    *)
(* backtrace is the sequence of entries rec_backtrace wrote.               *)
(***************************************************************************)
ValueAddresses == {1, 2}
TypeAddresses == {8192, 12288}
RawStacks == {<<1>>, <<2, 1>>}
SizeOfType(type) == IF type = 8192 THEN 16 ELSE 32

EmptyMap == <<>>

\* m[k] = v in C++: insert or overwrite.
MapPut(m, k, v) == [x \in (DOMAIN m) \cup {k} |-> IF x = k THEN v ELSE m[x]]

(***************************************************************************)
(* part_002: struct AllocProfile and its globals.                          *)
(***************************************************************************)
\* AllocProfile::reset: only the sampling parameter and counters are set.
reset(profile, _skip_every) ==
    [profile EXCEPT !.skip_every = _skip_every,
                    !.alloc_counter = 0,
                    !.last_recorded_alloc = 0]

\* AllocProfile g_alloc_profile(0): the containers are default-constructed
\* (empty) and the constructor calls reset(0).
AllocProfile(_skip_every) ==
    reset([skip_every |-> 0,
           allocs |-> <<>>,
           type_name_by_address |-> EmptyMap,
           type_address_by_value_address |-> EmptyMap,
           frees_by_type_address |-> EmptyMap,
           alloc_counter |-> 0,
           last_recorded_alloc |-> 0], _skip_every)

\* The tag values and the two type objects _type_as_string compares the
\* handle with, as addresses of the model (the tags are not addresses of
\* objects), and an object that is not a datatype.
jl_buff_tag == 20480

jl_malloc_tag == 24576

jl_string_type == 28672

jl_symbol_type == 32768

NonDatatype == 36864

\* jl_is_datatype(v): reads the type tag of the object at v.
jl_is_datatype(v) ==
    v \in TypeAddresses \cup {jl_string_type, jl_symbol_type}

\* jl_static_show of the datatypes of the model.
jl_static_show(type) == IF type = 8192 THEN "A" ELSE "B"

\* A _type_as_string that looks at the descriptor before anything else.
type_as_string_InspectFirst(type) ==
    IF jl_is_datatype(type)
    THEN [name |-> jl_static_show(type), inspected |-> TRUE]
    ELSE [name |-> IF type < 4096 THEN "<corrupt>" ELSE "<missing>",
          inspected |-> TRUE]

\* The chain of tests of _type_as_string: the name returned, and whether
\* the handle was read as a type descriptor (jl_is_datatype) on the way.
type_as_string_Trace(type) ==
    IF type < 4096 THEN [name |-> "<corrupt>", inspected |-> FALSE]
    ELSE IF type = jl_buff_tag
    THEN [name |-> "<buffer>", inspected |-> FALSE]
    ELSE IF type = jl_malloc_tag
    THEN [name |-> "<malloc>", inspected |-> FALSE]
    ELSE IF type = jl_string_type
    THEN [name |-> "<string>", inspected |-> FALSE]
    ELSE IF type = jl_symbol_type
    THEN [name |-> "<symbol>", inspected |-> FALSE]
    ELSE IF jl_is_datatype(type)
    THEN [name |-> jl_static_show(type), inspected |-> TRUE]
    ELSE [name |-> "<missing>", inspected |-> TRUE]

\* _type_as_string: the name alone.
_type_as_string(type) == type_as_string_Trace(type).name

\* register_type_string: the first registration of a type wins.
register_type_string(profile, type) ==
    IF type \in DOMAIN profile.type_name_by_address
    THEN profile
    ELSE [profile EXCEPT !.type_name_by_address =
                             MapPut(@, type, _type_as_string(type))]

\* get_raw_backtrace: rec_backtrace writes the current stack into the
\* function's static buffer bt_data, and the RawBacktrace returned points
\* at that buffer.
get_raw_backtrace(s, stack) ==
    [s EXCEPT !.bt_data = stack]

RawBacktrace(stack) ==
    [data |-> "bt_data", size |-> Len(stack)]

\* The sampling test of _record_allocated_value: the call returns early
\* when diff < skip_every.  diff is a size_t and skip_every >= 0 converts
\* to the same value; a counter below last_recorded_alloc wraps diff
\* around to a value above every skip_every.
SamplingSkips_OffByOne(profile) ==
    /\ profile.alloc_counter >= profile.last_recorded_alloc
    /\ (profile.alloc_counter - profile.last_recorded_alloc)
           <= profile.skip_every

\* A test under which skip_every = 0 records nothing.
SamplingSkips_ZeroSkipsAll(profile) ==
    \/ profile.skip_every = 0
    \/ /\ profile.alloc_counter >= profile.last_recorded_alloc
       /\ (profile.alloc_counter - profile.last_recorded_alloc)
              < profile.skip_every

SamplingSkips(profile) ==
    /\ profile.alloc_counter >= profile.last_recorded_alloc
    /\ (profile.alloc_counter - profile.last_recorded_alloc)
           < profile.skip_every

\* profile.alloc_counter++ is a load, an add and a store; StoreCounter is
\* the store of the value loaded before.
StoreCounter(s, loaded) ==
    [s EXCEPT !.g_alloc_profile.alloc_counter = loaded + 1]

\* profile.last_recorded_alloc = profile.alloc_counter
MarkRecorded(s) ==
    [s EXCEPT !.g_alloc_profile.last_recorded_alloc =
                  s.g_alloc_profile.alloc_counter]

\* register_type_string on the static profile.
RegisterType(s, type) ==
    [s EXCEPT !.g_alloc_profile = register_type_string(@, type)]

\* The last statement of register_type_string alone: the name is stored
\* under the address whether or not an entry exists by now.
StoreTypeName(s, type) ==
    [s EXCEPT !.g_alloc_profile.type_name_by_address =
                  MapPut(@, type, _type_as_string(type))]

\* The rest of _record_allocated_value after the type is registered: the
\* reverse index entry, the capture into the static buffer, emplace_back.
PushAlloc(s, val, type, size, stack) ==
    LET captured == get_raw_backtrace(s, stack) IN
    [captured EXCEPT
        !.g_alloc_profile.type_address_by_value_address =
            MapPut(@, val, type),
        !.g_alloc_profile.allocs =
            Append(@, [type_address |-> type,
                       backtrace |-> RawBacktrace(stack),
                       size |-> size])]

\* _record_allocated_value, the whole handler, on the globals s.  type is
\* jl_typeof(val) and stack is what rec_backtrace captures at the call.
_record_allocated_value(s, val, type, size, stack) ==
    LET counted == StoreCounter(s, s.g_alloc_profile.alloc_counter) IN
    IF SamplingSkips(counted.g_alloc_profile)
    THEN counted
    ELSE PushAlloc(RegisterType(MarkRecorded(counted), type),
                   val, type, size, stack)

\* A _record_freed_value whose second branch stores 1 again.
record_freed_value_CountsOnce(s, val) ==
    LET profile == s.g_alloc_profile IN
    IF val \notin DOMAIN profile.type_address_by_value_address
    THEN s
    ELSE LET t == profile.type_address_by_value_address[val] IN
         [s EXCEPT !.g_alloc_profile.frees_by_type_address =
                       MapPut(@, t, 1)]

\* _record_freed_value: frees are counted by the type the value's address
\* was last recorded with; the index entry is left in place.
_record_freed_value(s, val) ==
    LET profile == s.g_alloc_profile IN
    IF val \notin DOMAIN profile.type_address_by_value_address
    THEN s
    ELSE LET t == profile.type_address_by_value_address[val] IN
         IF t \notin DOMAIN profile.frees_by_type_address
         THEN [s EXCEPT !.g_alloc_profile.frees_by_type_address =
                            MapPut(@, t, 1)]
         ELSE [s EXCEPT !.g_alloc_profile.frees_by_type_address =
                            MapPut(@, t, @[t] + 1)]

\* record_allocated_value / record_freed_value: the inline gates of the
\* header; the handler runs only when g_alloc_profile_enabled is set.
record_allocated_value_Ungated(s, val, type, size, stack) ==
    _record_allocated_value(s, val, type, size, stack)

record_allocated_value(s, val, type, size, stack) ==
    IF s.g_alloc_profile_enabled
    THEN _record_allocated_value(s, val, type, size, stack)
    ELSE s

record_freed_value(s, val) ==
    IF s.g_alloc_profile_enabled
    THEN _record_freed_value(s, val)
    ELSE s

\* The globals at program start: AllocProfile g_alloc_profile(0),
\* g_alloc_profile_enabled = false, and the static buffer of
\* get_raw_backtrace.
SamplerGlobals ==
    [g_alloc_profile_enabled |-> FALSE,
     g_alloc_profile |-> AllocProfile(0),
     bt_data |-> <<>>]

\* jl_start_alloc_profile(skip_every): the flag is set, then reset runs on
\* the static profile.
jl_start_alloc_profile(s, skip_every) ==
    [s EXCEPT !.g_alloc_profile_enabled = TRUE,
              !.g_alloc_profile = reset(@, skip_every)]

\* jl_stop_and_write_alloc_profile: the flag is cleared, then the allocs
\* vector is handed out (a read).
jl_stop_and_write_alloc_profile(s) ==
    [s EXCEPT !.g_alloc_profile_enabled = FALSE]

(***************************************************************************)
(* part_005: the trie revision.                                            *)
(*                                                                         *)
(* The symbol resolver is outside the profiler; it is a fixed table from   *)
(* raw backtrace entries to the frames they resolve to.  Entry 1 is an     *)
(* interpreter entry, entries 2..5 are native instruction pointers: 2 has  *)
(* an inlined frame, 3 is C code, 4 is a stdlib frame and 5 resolves to    *)
(* the same frame as entry 1.  Entry 6 is an interpreter entry at a        *)
(* statement of k inlined into m: its line table node is that of k and     *)
(* the inlined_at link of that node leads to the node of m.                *)
(***************************************************************************)
StackFrame(func_name, file_name, line_no) ==
    [func_name |-> func_name, file_name |-> file_name, line_no |-> line_no,
     total |-> <<>>]

TrieEntries == 1..6

jl_bt_is_native(entry) == entry \notin {1, 6}

\* get_julia_frames: the frames of the inlined-at chain of an interpreter
\* entry.
get_julia_frames_Trie(entry) ==
    IF entry = 1
    THEN <<StackFrame(<<"f">>, <<"a", ".jl">>, 1)>>
    ELSE <<StackFrame(<<"k">>, <<"c", ".jl">>, 4),
           StackFrame(<<"m">>, <<"c", ".jl">>, 9)>>

\* get_native_frames: what jl_getFunctionInfo returns for the ip, minus the
\* frames without a function name.
get_native_frames_Trie(ip) ==
    CASE ip = 2 -> <<StackFrame(<<"g">>, <<"a", ".jl">>, 2),
                     StackFrame(<<"f">>, <<"a", ".jl">>, 3)>>
      [] ip = 3 -> <<StackFrame(<<"jl_apply">>, <<"gf", ".c">>, 7)>>
      [] ip = 4 -> <<StackFrame(<<"h">>, <<"./", "boot", ".jl">>, 5)>>
      [] OTHER -> <<StackFrame(<<"f">>, <<"a", ".jl">>, 1)>>

\* The backtraces rec_backtrace captures in the model, innermost entry
\* first.
TrieRawStacks ==
    {<<1>>, <<1, 2>>, <<1, 3, 2>>, <<2>>, <<3, 4>>, <<5, 1>>, <<6>>}

ends_with(full_string, ending) ==
    IF Len(full_string) >= Len(ending)
    THEN SubSeq(full_string, Len(full_string) - Len(ending) + 1,
                Len(full_string)) = ending
    ELSE FALSE

starts_with(full_string, beginning) ==
    IF Len(full_string) >= Len(beginning)
    THEN SubSeq(full_string, 1, Len(beginning)) = beginning
    ELSE FALSE

\* The filter of get_stack: a frame is dropped when its file is not a
\* Julia file or is a stdlib file.
FrameIsDropped(frame) ==
    LET is_julia == ends_with(frame.file_name, <<".jl">>)
                        \/ frame.file_name = <<"top-level scope">>
        actual_is_native == ~is_julia
        is_stdlib == is_julia /\ starts_with(frame.file_name, <<"./">>)
    IN actual_is_native \/ is_stdlib

RECURSIVE FilterFrames(_)
FilterFrames(frames) ==
    IF frames = <<>> THEN <<>>
    ELSE IF FrameIsDropped(Head(frames))
         THEN FilterFrames(Tail(frames))
         ELSE <<Head(frames)>> \o FilterFrames(Tail(frames))

\* get_stack: every entry of the backtrace is resolved, in the order of
\* the backtrace, and the frames that pass the filter are appended.
RECURSIVE get_stack_Trie(_)
get_stack_Trie(bt_data) ==
    IF bt_data = <<>> THEN <<>>
    ELSE LET entry == Head(bt_data)
             frames == IF jl_bt_is_native(entry)
                       THEN get_native_frames_Trie(entry)
                       ELSE get_julia_frames_Trie(entry)
         IN FilterFrames(frames) \o get_stack_Trie(Tail(bt_data))

\* stack_frame_to_string: "%s at %s:%d" unless the total is cached.
stack_frame_to_string(frame) ==
    IF frame.total # <<>>
    THEN frame.total
    ELSE frame.func_name \o <<" at ">> \o frame.file_name
             \o <<":", ToString(frame.line_no)>>

\* new StackTrieNode(): no children, no counts.
StackTrieNode == [children |-> EmptyMap, allocs_by_type_address |-> EmptyMap]

\* The heap of trie nodes is a sequence shifted by one: node n is
\* nodes[n + 1]; node 0 is the root member of the AllocProfile and a new
\* node gets the next address.
NodeAt(nodes, n) == nodes[n + 1]

\* The count update at the end of the path: 1 for a new type, else ++.
CountUp_Overwrite(allocs, type_address) ==
    MapPut(allocs, type_address, 1)

CountUp(allocs, type_address) ==
    IF type_address \notin DOMAIN allocs
    THEN MapPut(allocs, type_address, 1)
    ELSE MapPut(allocs, type_address, allocs[type_address] + 1)

\* The child lookup of trie_insert: TRUE when a child must be created.
ChildMissing_Always(children, child_str) == TRUE

ChildMissing(children, child_str) == child_str \notin DOMAIN children

\* trie_insert(node, path, idx, type_address) on the heap nodes; idx is
\* 0-based as in the source.
RECURSIVE trie_insert(_, _, _, _, _)
trie_insert(nodes, node, path, idx, type_address) ==
    IF idx = Len(path)
    THEN [nodes EXCEPT ![node + 1].allocs_by_type_address =
                           CountUp(@, type_address)]
    ELSE LET frame == path[idx + 1]
             child_str == stack_frame_to_string(frame)
         IN IF ChildMissing(NodeAt(nodes, node).children, child_str)
            THEN LET child_node == Len(nodes)
                     linked == [Append(nodes, StackTrieNode)
                                   EXCEPT ![node + 1].children =
                                       MapPut(@, child_str, child_node)]
                 IN trie_insert(linked, child_node, path, idx + 1,
                                type_address)
            ELSE trie_insert(nodes, NodeAt(nodes, node).children[child_str],
                             path, idx + 1, type_address)

\* new AllocProfile{}: a root without children and an empty type table.
AllocProfile_Trie ==
    [nodes |-> <<StackTrieNode>>, type_name_by_address |-> EmptyMap]

\* trie_serialize: one line per non-root node (its level, key and counts
\* by type name), children after their parent.  The order in which the
\* maps are iterated is not modelled here: the output is the set of lines.
RECURSIVE trie_serialize(_, _, _)
trie_serialize(profile, node, level) ==
    LET children == NodeAt(profile.nodes, node).children IN
    UNION {
        {[level |-> level, key |-> k,
          counts |-> LET a == NodeAt(profile.nodes, children[k])
                                  .allocs_by_type_address
                     IN {<<IF t \in DOMAIN profile.type_name_by_address
                           THEN profile.type_name_by_address[t]
                           ELSE "", a[t]>> :
                            t \in DOMAIN a}]}
            \cup trie_serialize(profile, children[k], level + 1)
        : k \in DOMAIN children}

alloc_profile_serialize_Trie(profile) == trie_serialize(profile, 0, 0)

\* The profile after trie_serialize: profile->type_name_by_address[...] is
\* operator[] of unordered_map, which inserts an empty string under every
\* counted type address that is missing from the table.
trie_serialize_Touched(profile) ==
    LET counted == UNION {DOMAIN profile.nodes[i].allocs_by_type_address :
                             i \in 2..Len(profile.nodes)}
        table == profile.type_name_by_address
    IN [profile EXCEPT !.type_name_by_address =
           [t \in DOMAIN table \cup counted |->
               IF t \in DOMAIN table THEN table[t] ELSE ""]]

\* The globals of the revision.  g_alloc_profile is the address of the
\* profile (0 is nullptr); profile is the object it points to; stream is
\* what has been written to the stream of the session; fault records a
\* dereference of nullptr.
TrieGlobals ==
    [g_alloc_profile_out |-> "nullptr",
     g_alloc_profile |-> 0,
     profile |-> AllocProfile_Trie,
     stream |-> {},
     fault |-> FALSE]

\* jl_start_alloc_profile(stream): the stream is installed, then a new
\* profile is allocated.  address is what operator new returns.
jl_start_alloc_profile_Trie(g, stream, address) ==
    [g EXCEPT !.g_alloc_profile_out = stream,
              !.g_alloc_profile = address,
              !.profile = AllocProfile_Trie,
              !.stream = {}]

\* jl_stop_alloc_profile: serialize to the stream and flush, then clear
\* both globals.  Without a session the profile pointer is nullptr and
\* trie_serialize dereferences it.
jl_stop_alloc_profile_Trie(g) ==
    IF g.g_alloc_profile = 0
    THEN [g EXCEPT !.fault = TRUE]
    ELSE [g EXCEPT !.stream = alloc_profile_serialize_Trie(g.profile),
                   !.profile = trie_serialize_Touched(g.profile),
                   !.g_alloc_profile_out = "nullptr",
                   !.g_alloc_profile = 0]

\* register_type_string on the profile of the trie revision.
register_type_string_Trie(profile, type) ==
    IF type \in DOMAIN profile.type_name_by_address
    THEN profile
    ELSE [profile EXCEPT !.type_name_by_address =
                             MapPut(@, type, _type_as_string(type))]

\* _record_allocated_value: register the type, capture and resolve the
\* stack, insert it at the root.
_record_allocated_value_Trie(g, type, bt_data) ==
    LET named == register_type_string_Trie(g.profile, type)
        stack == get_stack_Trie(bt_data)
    IN [g EXCEPT !.profile =
           [named EXCEPT !.nodes = trie_insert(@, 0, stack, 0, type)]]

\* record_allocated_value: the inline gate tests g_alloc_profile_out.
record_allocated_value_Trie(g, type, bt_data) ==
    IF g.g_alloc_profile_out # "nullptr"
    THEN _record_allocated_value_Trie(g, type, bt_data)
    ELSE g

(***************************************************************************)
(* gc-alloc-profiler.cpp, lines 1-444: the call-graph revision.            *)
(*                                                                         *)
(* The resolver is again a fixed table.  Entries 1, 2 and 4 are            *)
(* interpreter entries, entry 3 is a native instruction pointer.  Methods  *)
(* are the addresses 101 and 102 (the jl_value_t* used as node label).     *)
(***************************************************************************)
GraphEntries == 1..4

jl_bt_is_native_Graph(entry) == entry = 3

\* jl_is_code_info(code) for the code an interpreter entry refers to.
jl_is_code_info_Graph(bt_entry) == bt_entry \in {1, 2}

\* get_julia_methods: the methods of the entry's inlined-at chain; nothing
\* when the entry holds no code info ("not codeinfo").
get_julia_methods(bt_entry) ==
    CASE bt_entry = 1 -> <<101>>
      [] bt_entry = 2 -> <<102, 101>>
      [] OTHER -> <<>>

\* What jl_typeof(val) gives the hook: the two datatypes, and two handles
\* below 4096, which _type_as_string shows as "<corrupt>" without looking
\* at them.
CorruptHandles == {16, 32}

GraphTypeAddresses == TypeAddresses \cup CorruptHandles

\* The backtraces rec_backtrace captures in the model, innermost entry
\* first.
GraphRawStacks ==
    {<<1>>, <<3, 1>>, <<2, 1>>, <<1, 2>>, <<3>>, <<4, 3>>, <<4, 1>>}

\* The order in which an unordered_map is iterated after operator[] or
\* find has been asked for key: a key already present leaves the order
\* alone; a new node is linked at the head of the element list (what
\* libstdc++ does for a key whose bucket was empty), so the map is walked
\* from the newest key to the oldest.
IterationAfter(iteration, map, key) ==
    IF key \in DOMAIN map THEN iteration ELSE <<key>> \o iteration

\* new CallGraphNode{is_native}: the two unordered_maps of a node, each
\* with the order in which a range-for walks it.
CallGraphNode(is_native) ==
    [is_native |-> is_native, calls_out |-> EmptyMap,
     allocs_by_type_address |-> EmptyMap,
     calls_out_iteration |-> <<>>,
     allocs_iteration |-> <<>>]

\* get_or_insert_node: the nodes map after the call (the node is
\* nodes[frame_label]).
get_or_insert_node(nodes, frame_label, is_native) ==
    IF frame_label \in DOMAIN nodes
    THEN nodes
    ELSE MapPut(nodes, frame_label, CallGraphNode(is_native))

\* incr_or_add_alloc on a node.
incr_or_add_alloc(node, type_address) ==
    [node EXCEPT !.allocs_by_type_address = CountUp(@, type_address),
                 !.allocs_iteration =
                     IterationAfter(@, node.allocs_by_type_address,
                                    type_address)]

\* An add_call_edge that stores 1 under an edge that exists already.
add_call_edge_Overwrite(from_node, to_node) ==
    [from_node EXCEPT !.calls_out = MapPut(@, to_node, 1),
                      !.calls_out_iteration =
                          IterationAfter(@, from_node.calls_out, to_node)]

\* add_call_edge on a node.
add_call_edge(from_node, to_node) ==
    [from_node EXCEPT !.calls_out = CountUp(@, to_node),
                      !.calls_out_iteration =
                          IterationAfter(@, from_node.calls_out, to_node)]

\* The inner loop of record_alloc over the methods of one entry.  st is
\* [nodes, nodes_iteration, prev_frame_label]; 0 is the nullptr label.
RECURSIVE RecordMethods(_, _, _, _)
RecordMethods(st, methods, is_native, type_address) ==
    IF methods = <<>> THEN st
    ELSE LET frame_label == Head(methods)
             inserted == get_or_insert_node(st.nodes, frame_label, is_native)
             updated ==
                 IF st.prev_frame_label = 0
                 THEN [inserted EXCEPT ![frame_label] =
                           incr_or_add_alloc(@, type_address)]
                 ELSE [inserted EXCEPT ![frame_label] =
                           add_call_edge(@, st.prev_frame_label)]
         IN RecordMethods([nodes |-> updated,
                           nodes_iteration |->
                               IterationAfter(st.nodes_iteration, st.nodes,
                                              frame_label),
                           prev_frame_label |-> frame_label],
                          Tail(methods), is_native, type_address)

\* The outer loop of record_alloc over the entries of the backtrace:
\* native entries are skipped.
RECURSIVE RecordEntries(_, _, _)
RecordEntries(st, stack, type_address) ==
    IF stack = <<>> THEN st
    ELSE LET entry == Head(stack)
             is_native == jl_bt_is_native_Graph(entry)
         IN IF is_native
            THEN RecordEntries(st, Tail(stack), type_address)
            ELSE RecordEntries(
                     RecordMethods(st, get_julia_methods(entry), is_native,
                                   type_address),
                     Tail(stack), type_address)

\* record_alloc(profile, stack, type_address)
record_alloc(profile, stack, type_address) ==
    LET st == RecordEntries([nodes |-> profile.nodes,
                             nodes_iteration |-> profile.nodes_iteration,
                             prev_frame_label |-> 0], stack, type_address)
    IN [profile EXCEPT !.nodes = st.nodes,
                       !.nodes_iteration = st.nodes_iteration]

\* new AllocProfile{}
AllocProfile_Graph ==
    [nodes |-> EmptyMap, type_name_by_address |-> EmptyMap,
     nodes_iteration |-> <<>>, types_iteration |-> <<>>]

\* entry_to_string of a method label.
entry_to_string(method) == IF method = 101 THEN "f" ELSE "g"

\* profile->type_name_by_address[type_address] as an rvalue: operator[]
\* of unordered_map inserts an empty string under a key that is missing.
TypeNameAt(profile, type_address) ==
    IF type_address \in DOMAIN profile.type_name_by_address
    THEN profile
    ELSE [profile EXCEPT
              !.type_name_by_address = MapPut(@, type_address, ""),
              !.types_iteration = <<type_address>> \o @]

\* The loop over node.second->allocs_by_type_address of
\* alloc_profile_serialize: st is [profile, out].
RECURSIVE AllocEdges(_, _, _)
AllocEdges(st, label, types) ==
    IF types = <<>> THEN st
    ELSE LET looked == TypeNameAt(st.profile, Head(types))
             line == <<"alloc", entry_to_string(label),
                       looked.type_name_by_address[Head(types)],
                       looked.nodes[label].allocs_by_type_address[Head(types)]>>
         IN AllocEdges([profile |-> looked, out |-> Append(st.out, line)],
                       label, Tail(types))

\* The loop over node.second->calls_out of alloc_profile_serialize.
CallEdges(profile, label) ==
    LET node == profile.nodes[label] IN
    [i \in 1..Len(node.calls_out_iteration) |->
        <<"call", entry_to_string(label),
          entry_to_string(node.calls_out_iteration[i]),
          node.calls_out[node.calls_out_iteration[i]]>>]

\* The second loop over profile->nodes of alloc_profile_serialize: the
\* call edges of a node, then its allocation edges.
RECURSIVE NodeEdges(_, _)
NodeEdges(st, labels) ==
    IF labels = <<>> THEN st
    ELSE NodeEdges(
             AllocEdges([st EXCEPT !.out = @ \o CallEdges(st.profile,
                                                          Head(labels))],
                        Head(labels),
                        st.profile.nodes[Head(labels)].allocs_iteration),
             Tail(labels))

\* alloc_profile_serialize as a whole: [profile, out], the profile after
\* the call and the statements written, in the order written.
SerializeRun(profile) ==
    LET node_lines ==
            [i \in 1..Len(profile.nodes_iteration) |->
                <<"node", entry_to_string(profile.nodes_iteration[i]),
                  profile.nodes[profile.nodes_iteration[i]].is_native>>]
        type_lines ==
            [i \in 1..Len(profile.types_iteration) |->
                <<"type",
                  profile.type_name_by_address[profile.types_iteration[i]]>>]
        edges == NodeEdges([profile |-> profile,
                            out |-> <<<<"digraph {">>>> \o node_lines
                                        \o type_lines],
                           profile.nodes_iteration)
    IN [edges EXCEPT !.out = Append(@, <<"}">>)]

\* alloc_profile_serialize: the text written to the stream.
alloc_profile_serialize_Graph(profile) == SerializeRun(profile).out

\* The globals of the revision, as in the trie revision: the address in
\* g_alloc_profile (0 is nullptr), the object it points to, what was
\* written to the stream, and whether nullptr was dereferenced.
GraphGlobals ==
    [g_alloc_profile_out |-> "nullptr",
     g_alloc_profile |-> 0,
     profile |-> AllocProfile_Graph,
     stream |-> <<>>,
     fault |-> FALSE]

\* jl_start_alloc_profile(stream), first statement.
InstallStream(g, stream) ==
    [g EXCEPT !.g_alloc_profile_out = stream, !.stream = <<>>]

\* jl_start_alloc_profile(stream), second statement: address is what
\* operator new returns; the profile pointed to before is not freed.
InstallProfile(g, address) ==
    [g EXCEPT !.g_alloc_profile = address, !.profile = AllocProfile_Graph]

jl_start_alloc_profile_Graph(g, stream, address) ==
    InstallProfile(InstallStream(g, stream), address)

\* jl_stop_alloc_profile, first two statements: serialize and flush.
\* Without a session both pointers are nullptr and are dereferenced.
SerializeAndFlush(g) ==
    IF g.g_alloc_profile = 0 \/ g.g_alloc_profile_out = "nullptr"
    THEN [g EXCEPT !.fault = TRUE]
    ELSE [g EXCEPT !.stream = alloc_profile_serialize_Graph(g.profile),
                   !.profile = SerializeRun(g.profile).profile]

\* jl_stop_alloc_profile, the two assignments of nullptr.
ClearStream(g) == [g EXCEPT !.g_alloc_profile_out = "nullptr"]

ClearProfile(g) == [g EXCEPT !.g_alloc_profile = 0]

jl_stop_alloc_profile_Graph(g) ==
    LET written == SerializeAndFlush(g) IN
    IF written.fault THEN written ELSE ClearProfile(ClearStream(written))

\* A register_type_string that registers nothing.
register_type_string_Skipped(profile, type) == profile

\* A register_type_string that stores a name over the one registered.
register_type_string_Replaces(profile, type) ==
    IF type \in DOMAIN profile.type_name_by_address
    THEN [profile EXCEPT !.type_name_by_address =
                             MapPut(@, type, "<missing>")]
    ELSE [profile EXCEPT !.type_name_by_address =
                             MapPut(@, type, _type_as_string(type)),
                         !.types_iteration = <<type>> \o @]

register_type_string_Graph(profile, type) ==
    IF type \in DOMAIN profile.type_name_by_address
    THEN profile
    ELSE [profile EXCEPT !.type_name_by_address =
                             MapPut(@, type, _type_as_string(type)),
                         !.types_iteration = <<type>> \o @]

\* _record_allocated_value: g_alloc_profile is dereferenced; then the type
\* is registered and the captured stack recorded.
_record_allocated_value_Graph(g, type, bt_data) ==
    IF g.g_alloc_profile = 0
    THEN [g EXCEPT !.fault = TRUE]
    ELSE [g EXCEPT !.profile =
             record_alloc(register_type_string_Graph(@, type), bt_data, type)]

\* record_allocated_value: the inline gate tests g_alloc_profile_out.
GateOpen_Graph(g) == g.g_alloc_profile_out # "nullptr"

record_allocated_value_Graph(g, type, bt_data) ==
    IF GateOpen_Graph(g)
    THEN _record_allocated_value_Graph(g, type, bt_data)
    ELSE g

\* No thread is inside an operation.
NoThreads == [ctl |-> "idle", hook |-> "idle"]

(***************************************************************************)
(* src/unnamed/part_004, lines 216-266: the frame cache of GraphBuilder,   *)
(* and stacktrace_memoized of stdlib/AllocProfile/src/AllocProfile.jl.     *)
(*                                                                         *)
(* A backtrace entry is a sequence of words (jl_bt_element_t); the model   *)
(* keeps two bytes of each word.  A native entry is one word, the          *)
(* instruction pointer; an extended entry starts with the all-ones marker  *)
(* word and carries a descriptor and a value.                              *)
(***************************************************************************)
WordMax == 65535

CacheEntries ==
    {<<1>>, <<2>>, <<257>>, <<WordMax, 1, 7>>, <<WordMax, 1, 263>>}

\* jl_bt_is_native / jl_bt_entry_size of an entry of the model.
jl_bt_is_native_Words(entry) == entry[1] # WordMax

jl_bt_entry_size(entry) == Len(entry)

\* The bytes of one word in memory order.
WordBytes(w) == <<w % 256, w \div 256>>

\* A key made of the low byte of every word only.
RECURSIVE frame_as_string_LowBytes(_, _)
frame_as_string_LowBytes(entry, entry_size) ==
    IF entry_size = 0 THEN <<>>
    ELSE frame_as_string_LowBytes(entry, entry_size - 1)
             \o <<entry[entry_size] % 256>>

\* frame_as_string: the entry_size * sizeof(jl_bt_element_t) bytes of the
\* entry, copied into a string of that length.
RECURSIVE frame_as_string(_, _)
frame_as_string(entry, entry_size) ==
    IF entry_size = 0 THEN <<>>
    ELSE frame_as_string(entry, entry_size - 1)
             \o WordBytes(entry[entry_size])

\* StackFrame of part_004 (with is_native).
StackFrame_Cached(func_name, file_name, line_no, is_native) ==
    [func_name |-> func_name, file_name |-> file_name, line_no |-> line_no,
     is_native |-> is_native]

\* get_native_frames(ip): what jl_getFunctionInfo knows about the
\* instruction pointers of the model.
get_native_frames_Cached(ip) ==
    CASE ip = 1 -> <<StackFrame_Cached("jl_gc_alloc", "gc.c", 10, TRUE)>>
      [] ip = 2 -> <<StackFrame_Cached("g", "a.jl", 2, TRUE),
                     StackFrame_Cached("f", "a.jl", 3, TRUE)>>
      [] ip = 3 -> <<StackFrame_Cached("k", "a.jl", 8, TRUE),
                     StackFrame_Cached("g", "a.jl", 4, TRUE),
                     StackFrame_Cached("run", "a.jl", 9, TRUE)>>
      [] OTHER -> <<StackFrame_Cached("jl_apply", "gf.c", 7, TRUE)>>

\* get_julia_frames(entry): the line table of the code the entry refers to.
get_julia_frames_Cached(entry) ==
    IF entry[3] = 7
    THEN <<StackFrame_Cached("main", "b.jl", 1, FALSE)>>
    ELSE <<StackFrame_Cached("h", "b.jl", 5, FALSE),
           StackFrame_Cached("main", "b.jl", 2, FALSE)>>

\* The symbol resolver behind the cache.
ResolveEntry(entry) ==
    IF jl_bt_is_native_Words(entry)
    THEN get_native_frames_Cached(entry[1])
    ELSE get_julia_frames_Cached(entry)

\* new GraphBuilder{...}: the cache part of the builder.
GraphBuilder ==
    [cache |-> EmptyMap, cache_hits |-> 0, cache_misses |-> 0]

\* get_frames(builder, entry, entry_size, is_native): the builder after the
\* call, the frames returned, and whether the resolver was called.
get_frames(builder, entry, entry_size, is_native) ==
    LET entry_str == frame_as_string(entry, entry_size) IN
    IF entry_str \notin DOMAIN builder.cache
    THEN LET frames == IF is_native
                       THEN get_native_frames_Cached(entry[1])
                       ELSE get_julia_frames_Cached(entry)
         IN [builder |-> [builder EXCEPT !.cache_misses = @ + 1,
                                         !.cache = MapPut(@, entry_str, frames)],
             frames |-> frames,
             resolved |-> TRUE]
    ELSE [builder |-> [builder EXCEPT !.cache_hits = @ + 1],
          frames |-> builder.cache[entry_str],
          resolved |-> FALSE]

\* The frames of stacktrace_memoized that are pushed: all of them, or
\* those not from C.
RECURSIVE KeptFrames(_, _)
KeptFrames(frames, c_funcs) ==
    IF frames = <<>> THEN <<>>
    ELSE IF c_funcs \/ ~Head(frames).is_native
         THEN <<Head(frames)>> \o KeptFrames(Tail(frames), c_funcs)
         ELSE KeptFrames(Tail(frames), c_funcs)

\* stacktrace_memoized(cache, trace, c_funcs): the cache after the call,
\* the stack returned, and how many times lookup was called.  The Dict is
\* keyed by the entry itself; from_c is is_native here.
RECURSIVE stacktrace_memoized(_, _, _)
stacktrace_memoized(cache, trace, c_funcs) ==
    IF trace = <<>>
    THEN [cache |-> cache, stack |-> <<>>, lookups |-> 0]
    ELSE LET ip == Head(trace)
             hit == ip \in DOMAIN cache
             frames == IF hit THEN cache[ip] ELSE ResolveEntry(ip)
             filled == IF hit THEN cache ELSE MapPut(cache, ip, frames)
             rest == stacktrace_memoized(filled, Tail(trace), c_funcs)
         IN [cache |-> rest.cache,
             stack |-> KeptFrames(frames, c_funcs) \o rest.stack,
             lookups |-> rest.lookups + (IF hit THEN 0 ELSE 1)]

\* The caches at their construction.
MemoGlobals == [builder |-> GraphBuilder, cache |-> EmptyMap]

(***************************************************************************)
(* stdlib/AllocProfile/src/write_as_json.jl.  A Dict is a map as above;    *)
(* a frame is a key by its fields, a type by its address.                  *)
(***************************************************************************)
\* SerializationState()
SerializationState == [location_ids |-> EmptyMap, type_ids |-> EmptyMap]

\* get_location_id without the haskey test.
get_location_id_NoLookup(st, frame) ==
    LET new_id == Cardinality(DOMAIN st.location_ids) IN
    [st |-> [st EXCEPT !.location_ids = MapPut(@, frame, new_id)],
     id |-> new_id]

\* get_location_id(st, frame): the state after the call and the id.
get_location_id(st, frame) ==
    IF frame \in DOMAIN st.location_ids
    THEN [st |-> st, id |-> st.location_ids[frame]]
    ELSE LET new_id == Cardinality(DOMAIN st.location_ids) IN
         [st |-> [st EXCEPT !.location_ids = MapPut(@, frame, new_id)],
          id |-> new_id]

\* transform_stack(st, stack): the comprehension, front to back.
RECURSIVE transform_stack(_, _)
transform_stack(st, stack) ==
    IF stack = <<>> THEN [st |-> st, ids |-> <<>>]
    ELSE LET first == get_location_id(st, Head(stack))
             rest == transform_stack(first.st, Tail(stack))
         IN [st |-> rest.st, ids |-> <<first.id>> \o rest.ids]

\* get_type_id numbering from one.
get_type_id_FromOne(st, type) ==
    IF type \in DOMAIN st.type_ids
    THEN [st |-> st, id |-> st.type_ids[type]]
    ELSE LET new_id == Cardinality(DOMAIN st.type_ids) + 1 IN
         [st |-> [st EXCEPT !.type_ids = MapPut(@, type, new_id)],
          id |-> new_id]

\* get_type_id(st, type)
get_type_id(st, type) ==
    IF type \in DOMAIN st.type_ids
    THEN [st |-> st, id |-> st.type_ids[type]]
    ELSE LET new_id == Cardinality(DOMAIN st.type_ids) IN
         [st |-> [st EXCEPT !.type_ids = MapPut(@, type, new_id)],
          id |-> new_id]

\* The loop of write_as_json_help over profile.allocs.
RECURSIVE SerializeAllocs(_, _)
SerializeAllocs(st, allocs) ==
    IF allocs = <<>> THEN [st |-> st, allocs |-> <<>>]
    ELSE LET alloc == Head(allocs)
             stack == transform_stack(st, alloc.stacktrace)
             type_id == get_type_id(stack.st, alloc.type)
             rest == SerializeAllocs(type_id.st, Tail(allocs))
         IN [st |-> rest.st,
             allocs |-> <<[stack |-> stack.ids,
                           size |-> alloc.bytes_allocated,
                           type_id |-> type_id.id]>> \o rest.allocs]

\* string(type) of the types of the model.
TypeName(type) == IF type = 8192 THEN "A" ELSE "B"

\* The pairs of a Dict as a table, one row per key.  The order in which
\* a Dict is iterated is not modelled: the rows come in some fixed order.
RECURSIVE DictRows(_)
DictRows(dict) ==
    IF DOMAIN dict = {} THEN <<>>
    ELSE LET k == CHOOSE k \in DOMAIN dict : TRUE
         IN <<<<k, dict[k]>>>>
                \o DictRows([x \in DOMAIN dict \ {k} |-> dict[x]])

LocationRow(frame, id) == [loc |-> stack_frame_to_string(frame), id |-> id]

TypeRow(type, id) == [name |-> TypeName(type), id |-> id]

\* write_as_json_help(profile)
write_as_json_help(profile) ==
    LET done == SerializeAllocs(SerializationState, profile.allocs)
        location_rows == DictRows(done.st.location_ids)
        type_rows == DictRows(done.st.type_ids)
    IN [allocs |-> done.allocs,
        frees |-> <<>>,
        locations |-> [i \in 1..Len(location_rows) |->
                          LocationRow(location_rows[i][1],
                                      location_rows[i][2])],
        types |-> [i \in 1..Len(type_rows) |->
                      TypeRow(type_rows[i][1], type_rows[i][2])]]

\* Alloc of AllocProfile.jl.
Alloc(type, stacktrace, bytes_allocated) ==
    [type |-> type, stacktrace |-> stacktrace,
     bytes_allocated |-> bytes_allocated]

\* AllocResults without allocations, and no output written yet.
JsonGlobals ==
    [profile |-> [allocs |-> <<>>, frees |-> EmptyMap],
     out |-> [allocs |-> <<>>, frees |-> <<>>, locations |-> <<>>,
              types |-> <<>>]]

(***************************************************************************)
(* Spec: the sampling revision, every operation atomic (one thread).       *)
(* obs observes the run: the last operation, the number of hook calls      *)
(* (calls), of handler runs since the last start (n_calls), their          *)
(* positions that recorded (recorded_at), the length of allocs at the last *)
(* start (base) and the hook calls that found the gate closed.             *)
(***************************************************************************)
Init ==
    /\ sampler = SamplerGlobals
    /\ memo = MemoGlobals
    /\ json = JsonGlobals
    /\ obs = [last_op |-> "init", starts |-> 0, calls |-> 0,
              n_calls |-> 0, recorded_at |-> <<>>, base |-> 0,
              idle_calls |-> 0, freed |-> 0]
    /\ trie = TrieGlobals
    /\ graph = GraphGlobals
    /\ pc = NoThreads

StartStep ==
    \E k \in 0..MaxSkip :
        /\ obs.starts < MaxStarts
        /\ sampler' = jl_start_alloc_profile(sampler, k)
        /\ obs' = [obs EXCEPT !.last_op = "start", !.starts = @ + 1,
                              !.n_calls = 0, !.recorded_at = <<>>,
                              !.base = Len(sampler.g_alloc_profile.allocs)]
        /\ UNCHANGED <<NotSampler, pc>>

StopStep ==
    /\ sampler' = jl_stop_and_write_alloc_profile(sampler)
    /\ obs' = [obs EXCEPT !.last_op = "stop"]
    /\ UNCHANGED <<NotSampler, pc>>

AllocStep ==
    \E val \in ValueAddresses, type \in TypeAddresses, stack \in RawStacks :
        /\ obs.calls < MaxCalls
        /\ sampler' = record_allocated_value(sampler, val, type,
                                             SizeOfType(type), stack)
        /\ obs' = [obs EXCEPT
               !.last_op = "alloc", !.calls = @ + 1,
               !.n_calls = IF sampler.g_alloc_profile_enabled
                           THEN @ + 1 ELSE @,
               !.idle_calls = IF sampler.g_alloc_profile_enabled
                              THEN @ ELSE @ + 1,
               !.recorded_at =
                   IF Len(sampler'.g_alloc_profile.allocs)
                          > Len(sampler.g_alloc_profile.allocs)
                   THEN Append(@, obs.n_calls + 1) ELSE @]
        /\ UNCHANGED <<NotSampler, pc>>

FreeStep ==
    \E val \in ValueAddresses :
        /\ obs.calls < MaxCalls
        /\ sampler' = record_freed_value(sampler, val)
        /\ obs' = [obs EXCEPT
               !.last_op = "free", !.calls = @ + 1, !.freed = val,
               !.idle_calls = IF sampler.g_alloc_profile_enabled
                              THEN @ ELSE @ + 1]
        /\ UNCHANGED <<NotSampler, pc>>

Next == StartStep \/ StopStep \/ AllocStep \/ FreeStep

Spec == Init /\ [][Next]_vars

(***************************************************************************)
(* Properties of the sampling revision.                                    *)
(***************************************************************************)
\* The positions k, 2k, ..., m*k.
Multiples(k, m) == [i \in 1..m |-> i * k]

\* C1 (sampling determinism): in a session started with skip_every k >= 1,
\* after N calls of _record_allocated_value exactly N div k allocations
\* have been recorded, and they are the calls at positions k, 2k, 3k, ...
C1_SamplingDeterminism ==
    LET k == sampler.g_alloc_profile.skip_every
        n == obs.n_calls
    IN (obs.starts > 0 /\ k >= 1) =>
           /\ Len(sampler.g_alloc_profile.allocs) - obs.base = n \div k
           /\ obs.recorded_at = Multiples(k, n \div k)

C1_Witness ==
    /\ sampler.g_alloc_profile.skip_every = 2
    /\ obs.n_calls = 4
    /\ obs.recorded_at = <<2, 4>>

\* C20 (intervals 0 and 1 record everything): in a session started with
\* skip_every 0 or with skip_every 1, after N calls of the hook N
\* allocations have been recorded, one by each call.
C20_IntervalZeroAndOneRecordAll ==
    (obs.starts > 0 /\ sampler.g_alloc_profile.skip_every \in {0, 1}) =>
        /\ Len(sampler.g_alloc_profile.allocs) - obs.base = obs.n_calls
        /\ obs.recorded_at = [i \in 1..obs.n_calls |-> i]

\* Three calls in a session started with skip_every = 0, after a stopped
\* session, all three recorded.
C20_Witness ==
    /\ obs.starts = 2
    /\ sampler.g_alloc_profile_enabled
    /\ sampler.g_alloc_profile.skip_every = 0
    /\ obs.n_calls = 3
    /\ obs.recorded_at = <<1, 2, 3>>

\* C21 (the reverse index is purged): a record_freed_value that counts a
\* free removes the value's entry from type_address_by_value_address, so
\* the index holds one entry less than before, and no entry of a freed
\* value.
C21_FreePurgesReverseIndex ==
    [][(obs'.last_op = "free" /\ obs'.calls # obs.calls
        /\ sampler'.g_alloc_profile.frees_by_type_address
               # sampler.g_alloc_profile.frees_by_type_address)
           => /\ DOMAIN sampler'.g_alloc_profile.type_address_by_value_address
                     # DOMAIN sampler.g_alloc_profile
                                  .type_address_by_value_address
              /\ DOMAIN sampler'.g_alloc_profile.type_address_by_value_address
                     \subseteq DOMAIN sampler.g_alloc_profile
                                          .type_address_by_value_address]_vars

\* The number of frees counted for a type: no entry is no free.
FreesOf(profile, t) ==
    IF t \in DOMAIN profile.frees_by_type_address
    THEN profile.frees_by_type_address[t] ELSE 0

\* A step of _record_freed_value: a free with the gate open; obs.freed
\* is the value freed.
FreeHandled ==
    /\ obs'.last_op = "free" /\ obs'.calls # obs.calls
    /\ sampler.g_alloc_profile_enabled

\* C31 (frees are counted by type): _record_freed_value of a value whose
\* address is in the reverse index under type t adds exactly 1 to
\* frees_by_type_address[t] and changes no other count and nothing else
\* of the profiler; of a value whose address was never recorded it
\* changes nothing at all.
C31_FreeCountsOneForTheType ==
    [][FreeHandled =>
          LET before == sampler.g_alloc_profile
              after == sampler'.g_alloc_profile
              index == before.type_address_by_value_address
              val == obs'.freed
          IN IF val \in DOMAIN index
             THEN /\ [sampler' EXCEPT
                          !.g_alloc_profile.frees_by_type_address =
                              before.frees_by_type_address] = sampler
                  /\ DOMAIN after.frees_by_type_address
                         = DOMAIN before.frees_by_type_address
                               \cup {index[val]}
                  /\ \A t \in DOMAIN after.frees_by_type_address :
                         FreesOf(after, t) =
                             FreesOf(before, t)
                                 + (IF t = index[val] THEN 1 ELSE 0)
             ELSE sampler' = sampler]_vars

\* A second free of a recorded value of type 8192 has been counted, a
\* free of a value that was never recorded has changed nothing.
C31_Witness ==
    /\ obs.last_op = "free" /\ obs.freed = 2
    /\ sampler.g_alloc_profile_enabled
    /\ FreesOf(sampler.g_alloc_profile, 8192) = 2
    /\ FreesOf(sampler.g_alloc_profile, 12288) = 0
    /\ DOMAIN sampler.g_alloc_profile.type_address_by_value_address = {1}
    /\ sampler.g_alloc_profile.type_address_by_value_address[1] = 8192

\* The words a stored backtrace reads back: those of the buffer its data
\* points at, as many as its size.
BacktraceWords(s, backtrace) ==
    [k \in 1..backtrace.size |->
        IF k <= Len(s.bt_data) THEN s.bt_data[k] ELSE 0]

\* C33 (every Alloc owns its backtrace): no two Allocs stored in the
\* profile share backtrace storage, and the storage of every stored
\* Alloc holds a backtrace of the Alloc's own size, the one captured at
\* its allocation, whatever was captured later.
C33_AllocsDoNotShareBacktraceStorage ==
    LET allocs == sampler.g_alloc_profile.allocs IN
    /\ \A i, j \in 1..Len(allocs) :
           i # j => allocs[i].backtrace.data # allocs[j].backtrace.data
    /\ \A i \in 1..Len(allocs) :
           BacktraceWords(sampler, allocs[i].backtrace) = sampler.bt_data

\* C22 (the raw stack is not retained): when the hook has returned, no
\* allocation held by the session points at the raw backtrace buffer the
\* stack was captured into.
C22_NoRawStackRetained ==
    obs.last_op = "alloc" =>
        \A i \in 1..Len(sampler.g_alloc_profile.allocs) :
            sampler.g_alloc_profile.allocs[i].backtrace.data # "bt_data"

\* C5 (idle hooks are no-ops): a record_allocated_value or
\* record_freed_value call made while g_alloc_profile_enabled is clear
\* changes nothing of the profiler: not the session, the type table, the
\* free counts, nor the sampling counters.
C5_IdleHookIsNoOp ==
    [][(~sampler.g_alloc_profile_enabled /\ obs'.calls # obs.calls)
           => UNCHANGED sampler]_vars

C5_Witness ==
    /\ ~sampler.g_alloc_profile_enabled
    /\ obs.idle_calls > 0
    /\ obs.last_op \in {"alloc", "free"}
    /\ Len(sampler.g_alloc_profile.allocs) > 0

\* C7 (start gives an empty session): right after start returns the
\* session holds no recorded allocation, no type name, no value-to-type
\* entry, no free count, and both sampling counters are 0.
SessionEmpty(profile) ==
    /\ profile.allocs = <<>>
    /\ profile.type_name_by_address = EmptyMap
    /\ profile.type_address_by_value_address = EmptyMap
    /\ profile.frees_by_type_address = EmptyMap
    /\ profile.alloc_counter = 0
    /\ profile.last_recorded_alloc = 0

C7_StartGivesEmptySession ==
    obs.last_op = "start" => SessionEmpty(sampler.g_alloc_profile)

(***************************************************************************)
(* SpecTrie: the trie revision, every operation atomic (one thread).       *)
(* obs observes the session: how often each (key path, type) was inserted  *)
(* (ins), the number of samples, and for the last insertion whether the    *)
(* same sample had been inserted before and how many nodes it created.     *)
(***************************************************************************)
\* The keys of a resolved stack, in the order trie_insert consumes them.
PathKeys(stack) == [i \in 1..Len(stack) |-> stack_frame_to_string(stack[i])]

TrieInit ==
    /\ trie = TrieGlobals
    /\ obs = [last_op |-> "init", starts |-> 0, samples |-> 0,
              ins |-> EmptyMap, repeat |-> FALSE, created |-> 0]
    /\ sampler = SamplerGlobals
    /\ memo = MemoGlobals
    /\ json = JsonGlobals
    /\ graph = GraphGlobals
    /\ pc = NoThreads

TrieStartStep ==
    \E stream \in {"ios"} :
        /\ ~trie.fault
        /\ obs.starts < MaxStarts
        /\ trie' = jl_start_alloc_profile_Trie(trie, stream, obs.starts + 1)
        /\ obs' = [obs EXCEPT !.last_op = "start", !.starts = @ + 1,
                              !.ins = EmptyMap, !.samples = 0,
                              !.repeat = FALSE, !.created = 0]
        /\ UNCHANGED <<NotTrie, pc>>

TrieStopStep ==
    /\ ~trie.fault
    /\ trie' = jl_stop_alloc_profile_Trie(trie)
    /\ obs' = [obs EXCEPT !.last_op = "stop"]
    /\ UNCHANGED <<NotTrie, pc>>

TrieAllocStep ==
    \E type \in TypeAddresses, bt_data \in TrieRawStacks :
        LET sample == <<PathKeys(get_stack_Trie(bt_data)), type>>
            recorded == trie.g_alloc_profile_out # "nullptr"
        IN /\ ~trie.fault
           /\ obs.samples < MaxInserts
           /\ trie' = record_allocated_value_Trie(trie, type, bt_data)
           /\ obs' = [obs EXCEPT
                  !.last_op = "alloc",
                  !.samples = IF recorded THEN @ + 1 ELSE @,
                  !.ins = IF ~recorded THEN @
                          ELSE IF sample \in DOMAIN @
                               THEN MapPut(@, sample, @[sample] + 1)
                               ELSE MapPut(@, sample, 1),
                  !.repeat = recorded /\ sample \in DOMAIN obs.ins,
                  !.created = Len(trie'.profile.nodes)
                                  - Len(trie.profile.nodes)]
           /\ UNCHANGED <<NotTrie, pc>>

TrieNext == TrieStartStep \/ TrieStopStep \/ TrieAllocStep

SpecTrie == TrieInit /\ [][TrieNext]_vars

(***************************************************************************)
(* Reading the trie.                                                       *)
(***************************************************************************)
NonRoot(nodes) == 1..(Len(nodes) - 1)

\* The (parent, key) links that point at node n.
ParentLinks(nodes, n) ==
    {l \in UNION {{<<q, k>> : k \in DOMAIN NodeAt(nodes, q).children} :
                      q \in 0..(Len(nodes) - 1)} :
        NodeAt(nodes, l[1]).children[l[2]] = n}

\* The keys on the way from the root to node n.
RECURSIVE NodePath(_, _)
NodePath(nodes, n) ==
    IF n = 0 THEN <<>>
    ELSE IF ParentLinks(nodes, n) = {} THEN <<<<"unreachable">>>>
    ELSE LET l == CHOOSE l \in ParentLinks(nodes, n) : TRUE
         IN Append(NodePath(nodes, l[1]), l[2])

\* The node reached from node n along keys, -1 when a child is missing.
RECURSIVE TrieWalk(_, _, _)
TrieWalk(nodes, n, keys) ==
    IF keys = <<>> THEN n
    ELSE IF Head(keys) \notin DOMAIN NodeAt(nodes, n).children THEN 0 - 1
    ELSE TrieWalk(nodes, NodeAt(nodes, n).children[Head(keys)], Tail(keys))

Prefixes(paths) ==
    UNION {{SubSeq(k, 1, i) : i \in 1..Len(k)} : k \in paths}

RECURSIVE CommonPrefixLen(_, _)
CommonPrefixLen(a, b) ==
    IF a = <<>> \/ b = <<>> \/ Head(a) # Head(b) THEN 0
    ELSE 1 + CommonPrefixLen(Tail(a), Tail(b))

RECURSIVE SumMap(_)
SumMap(m) ==
    IF DOMAIN m = {} THEN 0
    ELSE LET k == CHOOSE k \in DOMAIN m : TRUE
         IN m[k] + SumMap([x \in DOMAIN m \ {k} |-> m[x]])

RECURSIVE SumSeq(_)
SumSeq(q) == IF q = <<>> THEN 0 ELSE Head(q) + SumSeq(Tail(q))

\* The sum of every allocation count in the trie.
TotalAllocs(nodes) ==
    SumSeq([i \in 1..Len(nodes) |-> SumMap(nodes[i].allocs_by_type_address)])

InsertedPaths == {pt[1] : pt \in DOMAIN obs.ins}

(***************************************************************************)
(* Properties of the trie revision.                                        *)
(***************************************************************************)
\* C2 (path sharing): a sample (resolved stack, type) recorded n times is
\* counted n at the one node its path ends in, every prefix of the path
\* has exactly one node, and recording a sample again creates no node.
C2_PathSharing ==
    LET nodes == trie.profile.nodes IN
    /\ \A pt \in DOMAIN obs.ins :
           LET t == TrieWalk(nodes, 0, pt[1]) IN
           /\ t >= 0
           /\ pt[2] \in DOMAIN NodeAt(nodes, t).allocs_by_type_address
           /\ NodeAt(nodes, t).allocs_by_type_address[pt[2]] = obs.ins[pt]
           /\ \A i \in 1..Len(pt[1]) :
                  Cardinality({n \in NonRoot(nodes) :
                      NodePath(nodes, n) = SubSeq(pt[1], 1, i)}) = 1
    /\ obs.repeat => obs.created = 0

C2_Witness ==
    \E pt \in DOMAIN obs.ins :
        /\ obs.ins[pt] = 3
        /\ Len(pt[1]) >= 2
        /\ obs.repeat

\* C3 (branching): the non-root nodes correspond one to one to the
\* distinct non-empty prefixes of the inserted stacks; two inserted stacks
\* share exactly the nodes of their common prefix and continue in two
\* distinct children below it.
C3_NodesArePrefixes ==
    LET nodes == trie.profile.nodes IN
    /\ {NodePath(nodes, n) : n \in NonRoot(nodes)} = Prefixes(InsertedPaths)
    /\ Cardinality(NonRoot(nodes)) = Cardinality(Prefixes(InsertedPaths))
    /\ \A a, b \in InsertedPaths :
           LET p == CommonPrefixLen(a, b) IN
           /\ \A i \in 1..p : TrieWalk(nodes, 0, SubSeq(a, 1, i))
                                  = TrieWalk(nodes, 0, SubSeq(b, 1, i))
           /\ (p < Len(a) /\ p < Len(b)) =>
                  /\ TrieWalk(nodes, 0, SubSeq(a, 1, p + 1)) >= 0
                  /\ TrieWalk(nodes, 0, SubSeq(b, 1, p + 1)) >= 0
                  /\ TrieWalk(nodes, 0, SubSeq(a, 1, p + 1))
                         # TrieWalk(nodes, 0, SubSeq(b, 1, p + 1))

C3_Witness ==
    \E a, b \in InsertedPaths :
        /\ CommonPrefixLen(a, b) >= 1
        /\ CommonPrefixLen(a, b) < Len(a)
        /\ CommonPrefixLen(a, b) < Len(b)
        /\ Len(trie.profile.nodes) >= 5

\* A sequence back to front.
Reverse(q) == [i \in 1..Len(q) |-> q[Len(q) + 1 - i]]

\* C14 (outermost frame first): rec_backtrace fills the buffer from the
\* frame of the capture outward and get_julia_frames follows inlined_at
\* from the inlined callee to its caller, so the keys of a sample are
\* kept in obs.ins innermost first.  The path of every recorded sample leaves the
\* root with the key of its outermost frame and ends, with the count of
\* the sample's type, at the node of its innermost frame.
C14_OutermostFirst ==
    \A pt \in DOMAIN obs.ins :
        LET n == TrieWalk(trie.profile.nodes, 0, Reverse(pt[1])) IN
        /\ n >= 0
        /\ pt[2] \in DOMAIN NodeAt(trie.profile.nodes, n).allocs_by_type_address

\* The direction the code has: the same with the keys as captured.
C14_InnermostFirst ==
    \A pt \in DOMAIN obs.ins :
        LET n == TrieWalk(trie.profile.nodes, 0, pt[1]) IN
        /\ n >= 0
        /\ pt[2] \in DOMAIN NodeAt(trie.profile.nodes, n).allocs_by_type_address

(***************************************************************************)
(* SpecGraph: the call-graph revision, every operation atomic.  obs counts *)
(* the samples handed to record_alloc in the session.                      *)
(***************************************************************************)
\* What a session holds, without the order in which its maps happen to be
\* iterated: the nodes with their call counts and allocation counts, and
\* the type-name table.
Contents(profile) ==
    [nodes |-> [n \in DOMAIN profile.nodes |->
                   [is_native |-> profile.nodes[n].is_native,
                    calls_out |-> profile.nodes[n].calls_out,
                    allocs_by_type_address |->
                        profile.nodes[n].allocs_by_type_address]],
     type_name_by_address |-> profile.type_name_by_address]

\* obs.bt_data is the backtrace the last call of the hook captured and
\* obs.type the type of the value it was called for.
GraphInit ==
    /\ graph = GraphGlobals
    /\ obs = [last_op |-> "init", starts |-> 0, samples |-> 0,
              bt_data |-> <<>>, type |-> 0]
    /\ sampler = SamplerGlobals
    /\ memo = MemoGlobals
    /\ json = JsonGlobals
    /\ trie = TrieGlobals
    /\ pc = NoThreads

GraphStartStep ==
    \E stream \in {"ios"} :
        /\ ~graph.fault
        /\ obs.starts < MaxStarts
        /\ graph' = jl_start_alloc_profile_Graph(graph, stream, obs.starts + 1)
        /\ obs' = [obs EXCEPT !.last_op = "start", !.starts = @ + 1,
                              !.samples = 0]
        /\ UNCHANGED <<NotGraph, pc>>

GraphStopStep ==
    /\ ~graph.fault
    /\ graph' = jl_stop_alloc_profile_Graph(graph)
    /\ obs' = [obs EXCEPT !.last_op = "stop"]
    /\ UNCHANGED <<NotGraph, pc>>

GraphAllocStep ==
    \E type \in GraphTypeAddresses, bt_data \in GraphRawStacks :
        /\ ~graph.fault
        /\ obs.samples < MaxInserts
        /\ graph' = record_allocated_value_Graph(graph, type, bt_data)
        /\ obs' = [obs EXCEPT !.last_op = "alloc",
                              !.samples = IF GateOpen_Graph(graph)
                                          THEN @ + 1 ELSE @,
                              !.bt_data = bt_data, !.type = type]
        /\ UNCHANGED <<NotGraph, pc>>

GraphNext == GraphStartStep \/ GraphStopStep \/ GraphAllocStep

SpecGraph == GraphInit /\ [][GraphNext]_vars

\* The sum of every allocation count in the call graph.
TotalAllocs_Graph(nodes) ==
    SumMap([n \in DOMAIN nodes |-> SumMap(nodes[n].allocs_by_type_address)])

\* C4 (every record counts once): after any sequence of records the
\* allocation counts of all nodes add up to the number of samples
\* recorded.  Stated for record_alloc of the call-graph revision.
C4_CountsAddUpToSamples ==
    TotalAllocs_Graph(graph.profile.nodes) = obs.samples

\* C4 for trie_insert of the trie revision (SpecTrie), where it holds.
C4_TrieCountsAddUpToSamples ==
    TotalAllocs(trie.profile.nodes) = obs.samples

\* C8 (misuse is rejected): jl_start_alloc_profile while a session is
\* active and jl_stop_alloc_profile while none is leave the session, the
\* gate and the stream as they were, and do not fault.
C8_MisuseIsRejected ==
    [][(\/ obs'.last_op = "start" /\ GateOpen_Graph(graph)
        \/ obs'.last_op = "stop" /\ ~GateOpen_Graph(graph))
           => UNCHANGED graph]_vars

\* C8, the first half alone: start while a session is active.
C8_StartWhileActiveIsRejected ==
    [][(obs'.last_op = "start" /\ GateOpen_Graph(graph))
           => UNCHANGED graph]_vars

\* The resolved frames of a backtrace, innermost first: the methods of
\* its interpreter entries, in the order of the entries.
RECURSIVE ResolvedMethods(_)
ResolvedMethods(bt_data) ==
    IF bt_data = <<>> THEN <<>>
    ELSE (IF jl_bt_is_native_Graph(Head(bt_data)) THEN <<>>
          ELSE get_julia_methods(Head(bt_data)))
             \o ResolvedMethods(Tail(bt_data))

\* A count of a map of counts: a key that is missing counts 0.
CountAt(m, k) == IF k \in DOMAIN m THEN m[k] ELSE 0

\* The allocations of a type counted at a node, and the calls counted on
\* the edge from a node to another.
NodeAllocs(nodes, label, type) ==
    IF label \in DOMAIN nodes
    THEN CountAt(nodes[label].allocs_by_type_address, type) ELSE 0

NodeCalls(nodes, from, to) ==
    IF from \in DOMAIN nodes THEN CountAt(nodes[from].calls_out, to) ELSE 0

\* C34 (one sample in the call graph): when the hook records a sample
\* whose resolved frames are f1 (innermost) to fn, the nodes of the graph
\* are those it had and f1 to fn; the allocation count of the sample's
\* type grows by 1 at the node of f1 and no other allocation count
\* changes; and the edge from a node to another grows by the number of
\* adjacent pairs f(i), f(i+1) in which the first is the callee f(i) and
\* the second the caller f(i+1), by 1 for each pair, and no other edge
\* changes.
C34_SampleCountsAtInnermostAndEdges ==
    [][(obs'.last_op = "alloc" /\ obs'.samples # obs.samples
        /\ ~graph'.fault)
           => LET f == ResolvedMethods(obs'.bt_data)
                  before == graph.profile.nodes
                  after == graph'.profile.nodes
                  Pairs(from, to) ==
                      {i \in 1..(Len(f) - 1) : f[i + 1] = from /\ f[i] = to}
              IN /\ DOMAIN after
                        = DOMAIN before \cup {f[i] : i \in 1..Len(f)}
                 /\ \A label \in DOMAIN after :
                        /\ DOMAIN after[label].allocs_by_type_address
                               \subseteq GraphTypeAddresses
                        /\ DOMAIN after[label].calls_out
                               \subseteq DOMAIN after
                        /\ \A type \in GraphTypeAddresses :
                               NodeAllocs(after, label, type) =
                                   NodeAllocs(before, label, type)
                                     + (IF f # <<>> /\ label = f[1]
                                           /\ type = obs'.type
                                        THEN 1 ELSE 0)
                        /\ \A to \in DOMAIN after :
                               NodeCalls(after, label, to) =
                                   NodeCalls(before, label, to)
                                     + Cardinality(Pairs(label, to))]_vars

\* A sample with frames 102, 101, 101 has been recorded after another
\* with the same frames: the edges 101 -> 102 and 101 -> 101 are at 2.
C34_Witness ==
    /\ obs.last_op = "alloc" /\ obs.bt_data = <<2, 1>>
    /\ obs.samples = 2
    /\ NodeCalls(graph.profile.nodes, 101, 102) = 2
    /\ NodeCalls(graph.profile.nodes, 101, 101) = 2
    /\ NodeAllocs(graph.profile.nodes, 102, obs.type) = 2

\* An interpreter entry whose code is not a code info: the entry has no
\* symbol to resolve to.
Unresolvable(bt_data) ==
    {i \in 1..Len(bt_data) : /\ ~jl_bt_is_native_Graph(bt_data[i])
                             /\ ~jl_is_code_info_Graph(bt_data[i])}

\* C23 (an unresolvable entry becomes one unknown frame): when the hook
\* records a backtrace with an entry that cannot be resolved, that entry
\* contributes exactly one frame to the sample, and the sample is
\* recorded, that is the allocation counts of the graph grow by one.
C23_UnresolvableEntryIsOneFrame ==
    [][(/\ obs'.last_op = "alloc" /\ GateOpen_Graph(graph)
        /\ ~graph'.fault
        /\ Unresolvable(obs'.bt_data) # {})
           => /\ \A i \in Unresolvable(obs'.bt_data) :
                     Len(get_julia_methods(obs'.bt_data[i])) = 1
              /\ TotalAllocs_Graph(graph'.profile.nodes)
                     = TotalAllocs_Graph(graph.profile.nodes) + 1]_vars

\* The parts of C23 that the call-graph revision keeps: the entries after
\* an unresolvable one are still resolved, so a backtrace with a
\* resolvable interpreter entry is still counted.
C23_LaterEntriesStillResolved ==
    [][(/\ obs'.last_op = "alloc" /\ GateOpen_Graph(graph)
        /\ ~graph'.fault
        /\ Unresolvable(obs'.bt_data) # {}
        /\ \E i \in 1..Len(obs'.bt_data) :
               get_julia_methods(obs'.bt_data[i]) # <<>>
               /\ ~jl_bt_is_native_Graph(obs'.bt_data[i]))
           => TotalAllocs_Graph(graph'.profile.nodes)
                  = TotalAllocs_Graph(graph.profile.nodes) + 1]_vars

\* The type addresses counted at some node of a profile.
CountedTypes(profile) ==
    UNION {DOMAIN profile.nodes[n].allocs_by_type_address :
               n \in DOMAIN profile.nodes}

\* C35 (counted types are registered): in every state of an active
\* session every type address counted at some node has an entry in
\* type_name_by_address, and a step within the session leaves the name of
\* every registered type as it is.
C35_CountedTypesAreRegistered ==
    [][/\ (GateOpen_Graph(graph') /\ ~graph'.fault)
             => CountedTypes(graph'.profile)
                    \subseteq DOMAIN graph'.profile.type_name_by_address
       /\ (GateOpen_Graph(graph) /\ ~graph'.fault
             /\ graph'.g_alloc_profile = graph.g_alloc_profile)
             => \A t \in DOMAIN graph.profile.type_name_by_address :
                    /\ t \in DOMAIN graph'.profile.type_name_by_address
                    /\ graph'.profile.type_name_by_address[t]
                           = graph.profile.type_name_by_address[t]]_vars

\* A third sample has been recorded, of a type counted and registered
\* before, in a session that counts a second type as well.
C35_Witness ==
    /\ obs.last_op = "alloc" /\ obs.samples = 3 /\ obs.type = 8192
    /\ GateOpen_Graph(graph)
    /\ CountedTypes(graph.profile) = {16, 8192}
    /\ NodeAllocs(graph.profile.nodes, 101, 8192) = 2
    /\ graph.profile.type_name_by_address[8192] = "A"
    /\ graph.profile.type_name_by_address[16] = "<corrupt>"

\* C16 (serialization is a pure read): a jl_stop_alloc_profile that
\* serializes leaves the session as it was, that is the nodes, the call
\* counts, the allocation counts, the type-name table and the order of
\* every map are the same before and after alloc_profile_serialize.
C16_SerializeLeavesSessionUnchanged ==
    [][(obs'.last_op = "stop" /\ ~graph'.fault)
           => graph'.profile = graph.profile]_vars

\* The statements of one kind in a serialized digraph.
Statements(out, kind) == {i \in 1..Len(out) : out[i][1] = kind}

\* The type names of the table, and the samples of one type name recorded
\* at one node.
TypeNames(profile) ==
    {profile.type_name_by_address[t] :
        t \in DOMAIN profile.type_name_by_address}

SamplesOfName(profile, n, name) ==
    LET allocs == profile.nodes[n].allocs_by_type_address IN
    SumMap([t \in {u \in DOMAIN allocs :
                      profile.type_name_by_address[u] = name} |-> allocs[t]])

\* C18 (what the digraph holds): the text written by a stop has exactly
\* one node statement for every node of the call graph, exactly one node
\* statement for every distinct type name, exactly one edge statement for
\* every caller and callee of a call edge, and for every node and type
\* name with samples exactly one edge statement, whose label is the number
\* of samples of that type name recorded at that node.
C18_OneStatementPerNodeTypeAndEdge ==
    (obs.last_op = "stop" /\ ~graph.fault) =>
        LET out == graph.stream
            profile == graph.profile
        IN /\ \A n \in DOMAIN profile.nodes :
                  Cardinality({i \in Statements(out, "node") :
                      out[i] = <<"node", entry_to_string(n),
                                 profile.nodes[n].is_native>>}) = 1
           /\ Cardinality(Statements(out, "node"))
                  = Cardinality(DOMAIN profile.nodes)
           /\ \A name \in TypeNames(profile) :
                  Cardinality({i \in Statements(out, "type") :
                      out[i] = <<"type", name>>}) = 1
           /\ Cardinality(Statements(out, "type"))
                  = Cardinality(TypeNames(profile))
           /\ \A n \in DOMAIN profile.nodes :
                  /\ \A m \in DOMAIN profile.nodes[n].calls_out :
                         Cardinality({i \in Statements(out, "call") :
                             out[i] = <<"call", entry_to_string(n),
                                        entry_to_string(m),
                                        profile.nodes[n].calls_out[m]>>}) = 1
                  /\ \A name \in TypeNames(profile) :
                         SamplesOfName(profile, n, name) > 0 =>
                             /\ Cardinality({i \in Statements(out, "alloc") :
                                    /\ out[i][2] = entry_to_string(n)
                                    /\ out[i][3] = name}) = 1
                             /\ \E i \in Statements(out, "alloc") :
                                    out[i] = <<"alloc", entry_to_string(n),
                                               name,
                                               SamplesOfName(profile, n,
                                                             name)>>

\* What the code does write: one type statement for every type address
\* of the table and one allocation edge for every node and type address
\* counted at it, labelled with that count.
C18_OneStatementPerTypeAddress ==
    (obs.last_op = "stop" /\ ~graph.fault) =>
        LET out == graph.stream
            profile == graph.profile
        IN /\ Cardinality(Statements(out, "node"))
                  = Cardinality(DOMAIN profile.nodes)
           /\ Cardinality(Statements(out, "type"))
                  = Cardinality(DOMAIN profile.type_name_by_address)
           /\ Cardinality(Statements(out, "call"))
                  = SumMap([n \in DOMAIN profile.nodes |->
                        Cardinality(DOMAIN profile.nodes[n].calls_out)])
           /\ Cardinality(Statements(out, "alloc"))
                  = SumMap([n \in DOMAIN profile.nodes |->
                        Cardinality(DOMAIN profile.nodes[n]
                                               .allocs_by_type_address)])
           /\ \A n \in DOMAIN profile.nodes :
                  \A t \in DOMAIN profile.nodes[n].allocs_by_type_address :
                      \E i \in Statements(out, "alloc") :
                          out[i] = <<"alloc", entry_to_string(n),
                                     profile.type_name_by_address[t],
                                     profile.nodes[n]
                                         .allocs_by_type_address[t]>>

\* A session with an allocation edge has been serialized, so that
\* serialization has looked a type name up in the table.
C16_Witness ==
    /\ obs.last_op = "stop" /\ ~graph.fault
    /\ \E i \in 1..Len(graph.stream) : graph.stream[i][1] = "alloc"

(***************************************************************************)
(* SpecConcurrent: the call-graph revision.  One thread runs               *)
(* jl_start_alloc_profile and jl_stop_alloc_profile a statement at a time  *)
(* (pc.ctl); another runs record_allocated_value, the gate test and the    *)
(* handler being separate steps (pc.hook).  The code takes no lock and     *)
(* the globals are plain pointers.                                         *)
(***************************************************************************)
ConcInit ==
    /\ graph = GraphGlobals
    /\ pc = NoThreads
    /\ obs = [last_op |-> "init", starts |-> 0, calls |-> 0,
              serialized |-> FALSE, late |-> FALSE, admitted |-> FALSE]
    /\ sampler = SamplerGlobals
    /\ memo = MemoGlobals
    /\ json = JsonGlobals
    /\ trie = TrieGlobals

\* g_alloc_profile_out = stream;
ConcStartStream ==
    \E stream \in {"ios"} :
        /\ ~graph.fault /\ pc.ctl = "idle"
        /\ obs.starts < MaxStarts
        /\ graph' = InstallStream(graph, stream)
        /\ pc' = [pc EXCEPT !.ctl = "start_stream"]
        /\ obs' = [obs EXCEPT !.last_op = "start", !.starts = @ + 1,
                              !.serialized = FALSE]
        /\ UNCHANGED NotGraph

\* g_alloc_profile = new AllocProfile{};
ConcStartProfile ==
    /\ ~graph.fault /\ pc.ctl = "start_stream"
    /\ graph' = InstallProfile(graph, obs.starts)
    /\ pc' = [pc EXCEPT !.ctl = "idle"]
    /\ obs' = [obs EXCEPT !.last_op = "start"]
    /\ UNCHANGED NotGraph

\* alloc_profile_serialize(...); ios_flush(...);
ConcStopSerialize ==
    /\ ~graph.fault /\ pc.ctl = "idle"
    /\ graph' = SerializeAndFlush(graph)
    /\ pc' = [pc EXCEPT !.ctl = IF graph'.fault THEN "idle"
                                ELSE "stop_serialized"]
    /\ obs' = [obs EXCEPT !.last_op = "stop",
                          !.serialized = ~graph'.fault]
    /\ UNCHANGED NotGraph

\* g_alloc_profile_out = nullptr;
ConcStopClearStream ==
    /\ ~graph.fault /\ pc.ctl = "stop_serialized"
    /\ graph' = ClearStream(graph)
    /\ pc' = [pc EXCEPT !.ctl = "stop_stream_cleared"]
    /\ obs' = [obs EXCEPT !.last_op = "stop"]
    /\ UNCHANGED NotGraph

\* g_alloc_profile = nullptr;
ConcStopClearProfile ==
    /\ ~graph.fault /\ pc.ctl = "stop_stream_cleared"
    /\ graph' = ClearProfile(graph)
    /\ pc' = [pc EXCEPT !.ctl = "idle"]
    /\ obs' = [obs EXCEPT !.last_op = "stop"]
    /\ UNCHANGED NotGraph

\* record_allocated_value on the other thread: the test of the gate.
\* obs.serialized says that the jl_stop_alloc_profile of this session has
\* serialized; obs.late that the call tested the gate after that;
\* obs.admitted that it tested the gate of a session whose start had
\* returned and whose stop had not begun.
ConcHookGate ==
    /\ ~graph.fault /\ pc.hook = "idle"
    /\ obs.calls < MaxCalls
    /\ pc' = [pc EXCEPT !.hook = IF GateOpen_Graph(graph)
                                 THEN "in" ELSE "idle"]
    /\ obs' = [obs EXCEPT !.last_op = "gate", !.calls = @ + 1,
                          !.late = obs.serialized /\ GateOpen_Graph(graph),
                          !.admitted = /\ GateOpen_Graph(graph)
                                       /\ pc.ctl = "idle"
                                       /\ ~obs.serialized]
    /\ UNCHANGED <<graph, NotGraph>>

\* _record_allocated_value on the other thread.
ConcHookBody ==
    \E type \in TypeAddresses, bt_data \in GraphRawStacks :
        /\ ~graph.fault /\ pc.hook = "in"
        /\ graph' = _record_allocated_value_Graph(graph, type, bt_data)
        /\ pc' = [pc EXCEPT !.hook = "idle"]
        /\ obs' = [obs EXCEPT !.last_op = "alloc"]
        /\ UNCHANGED NotGraph

ConcNext ==
    \/ ConcStartStream
    \/ ConcStartProfile
    \/ ConcStopSerialize
    \/ ConcStopClearStream
    \/ ConcStopClearProfile
    \/ ConcHookGate
    \/ ConcHookBody

SpecConcurrent == ConcInit /\ [][ConcNext]_vars

\* C6 (stop closes the gate first): jl_stop_alloc_profile clears the gate
\* before it serializes, so a hook call that arrives after the
\* serialization has begun adds nothing to the session.
C6_LateEventNotAdded ==
    [][(obs.late /\ pc.hook = "in" /\ pc'.hook = "idle")
           => graph'.profile = graph.profile]_vars

\* C11 (an admitted call completes): a hook call that passed the gate
\* before jl_stop_alloc_profile began runs its handler without fault,
\* whatever stop has done meanwhile, and what stop has written for the
\* session by then agrees with the session including the call's sample.
C11_InFlightCallCompletes ==
    [][(obs.admitted /\ pc.hook = "in" /\ pc'.hook = "idle")
           => /\ ~graph'.fault
              /\ obs.serialized =>
                     graph.stream =
                         alloc_profile_serialize_Graph(graph'.profile)]_vars

\* C11, the first half alone: the admitted call does not fault.
C11_InFlightCallDoesNotFault ==
    [][(obs.admitted /\ pc.hook = "in" /\ pc'.hook = "idle")
           => ~graph'.fault]_vars

\* C12 (the gate is set only once the session exists): in every state,
\* those inside jl_start_alloc_profile and jl_stop_alloc_profile
\* included, an open gate means g_alloc_profile points to the session of
\* the current start (whose address is obs.starts), never to nullptr or
\* to an earlier session.
C12_GateImpliesCurrentSession ==
    GateOpen_Graph(graph) =>
        /\ graph.g_alloc_profile # 0
        /\ graph.g_alloc_profile = obs.starts

\* C6, the order itself: the gate is clear by the time the session has
\* been serialized.
C6_GateClearWhenSerialized ==
    obs.serialized => ~GateOpen_Graph(graph)

(***************************************************************************)
(* SpecReentrant: the sampling revision on one thread.  A call of the     *)
(* hook that records stops inside register_type_string, after the find    *)
(* missed and before the name is stored (pc.at = "resolving"); while it   *)
(* is there the hook may be called again from inside _type_as_string,     *)
(* and that call runs to its end.                                         *)
(***************************************************************************)
ReInit ==
    /\ sampler = SamplerGlobals
    /\ memo = MemoGlobals
    /\ json = JsonGlobals
    /\ pc = [at |-> "idle", val |-> 0, type |-> 0]
    /\ obs = [last_op |-> "init", starts |-> 0, calls |-> 0,
              outer_recorded |-> 0, nested_calls |-> 0]
    /\ trie = TrieGlobals
    /\ graph = GraphGlobals

ReStart ==
    \E skip_every \in 0..MaxSkip :
        /\ pc.at = "idle"
        /\ obs.starts < 1
        /\ sampler' = jl_start_alloc_profile(sampler, skip_every)
        /\ obs' = [obs EXCEPT !.last_op = "start", !.starts = @ + 1]
        /\ UNCHANGED <<NotSampler, pc>>

\* The outer call up to the call of _type_as_string, or to its end when
\* the gate is closed, the event is skipped or the type is registered.
ReEnter ==
    \E val \in ValueAddresses, type \in TypeAddresses, stack \in RawStacks :
        LET counted == StoreCounter(sampler,
                                    sampler.g_alloc_profile.alloc_counter)
            marked == MarkRecorded(counted)
        IN
        /\ pc.at = "idle"
        /\ obs.calls < MaxCalls
        /\ IF ~sampler.g_alloc_profile_enabled
           THEN /\ UNCHANGED <<sampler, pc>>
                /\ obs' = [obs EXCEPT !.last_op = "alloc", !.calls = @ + 1]
           ELSE IF SamplingSkips(counted.g_alloc_profile)
           THEN /\ sampler' = counted
                /\ UNCHANGED pc
                /\ obs' = [obs EXCEPT !.last_op = "alloc", !.calls = @ + 1]
           ELSE IF type \in DOMAIN marked.g_alloc_profile.type_name_by_address
           THEN /\ sampler' = PushAlloc(marked, val, type, SizeOfType(type),
                                        stack)
                /\ UNCHANGED pc
                /\ obs' = [obs EXCEPT !.last_op = "alloc", !.calls = @ + 1,
                                      !.outer_recorded = @ + 1]
           ELSE /\ sampler' = marked
                /\ pc' = [at |-> "resolving", val |-> val, type |-> type]
                /\ obs' = [obs EXCEPT !.last_op = "enter", !.calls = @ + 1]
        /\ UNCHANGED NotSampler

\* The hook called from inside _type_as_string of the outer call.
ReNested ==
    \E val \in ValueAddresses, type \in TypeAddresses, stack \in RawStacks :
        /\ pc.at = "resolving"
        /\ obs.calls < MaxCalls
        /\ sampler' = record_allocated_value(sampler, val, type,
                                             SizeOfType(type), stack)
        /\ obs' = [obs EXCEPT !.last_op = "nested", !.calls = @ + 1,
                              !.nested_calls = @ + 1]
        /\ UNCHANGED <<NotSampler, pc>>

\* The outer call from the return of _type_as_string to its end.
ReFinish ==
    \E stack \in RawStacks :
        /\ pc.at = "resolving"
        /\ sampler' = PushAlloc(StoreTypeName(sampler, pc.type), pc.val,
                                pc.type, SizeOfType(pc.type), stack)
        /\ pc' = [at |-> "idle", val |-> 0, type |-> 0]
        /\ obs' = [obs EXCEPT !.last_op = "alloc",
                              !.outer_recorded = @ + 1]
        /\ UNCHANGED NotSampler

ReNext == ReStart \/ ReEnter \/ ReNested \/ ReFinish

SpecReentrant == ReInit /\ [][ReNext]_vars

\* C9 (reentrant events are dropped): an event whose hook call arrives
\* while an outer hook call is being processed produces no sample; the
\* recorded samples are those of the outer calls alone.
C9_NestedEventDropped ==
    Len(sampler.g_alloc_profile.allocs) = obs.outer_recorded

(***************************************************************************)
(* SpecThreads: the sampling revision with two threads in                  *)
(* _record_allocated_value.  The profile is a plain static object, so      *)
(* alloc_counter++ is a load and a store, and each later access to the     *)
(* profile is a step of its own; pc[t].loaded is the register of thread t. *)
(***************************************************************************)
Threads == {1, 2}

ThreadsInit ==
    /\ sampler = SamplerGlobals
    /\ memo = MemoGlobals
    /\ json = JsonGlobals
    /\ pc = [t \in Threads |-> [at |-> "idle", loaded |-> 0]]
    /\ obs = [last_op |-> "init", starts |-> 0, calls |-> 0, n_calls |-> 0]
    /\ trie = TrieGlobals
    /\ graph = GraphGlobals

AllIdle == \A t \in Threads : pc[t].at = "idle"

ThreadsStart ==
    \E skip_every \in 0..MaxSkip :
        /\ AllIdle
        /\ obs.starts < 1
        /\ sampler' = jl_start_alloc_profile(sampler, skip_every)
        /\ obs' = [obs EXCEPT !.last_op = "start", !.starts = @ + 1]
        /\ UNCHANGED <<NotSampler, pc>>

\* The inline gate of record_allocated_value.
ThreadGate(t) ==
    /\ pc[t].at = "idle"
    /\ obs.calls < MaxCalls
    /\ pc' = [pc EXCEPT ![t].at = IF sampler.g_alloc_profile_enabled
                                  THEN "load" ELSE "idle"]
    /\ obs' = [obs EXCEPT !.last_op = "gate", !.calls = @ + 1,
                          !.n_calls = IF sampler.g_alloc_profile_enabled
                                      THEN @ + 1 ELSE @]
    /\ UNCHANGED <<sampler, NotSampler>>

\* profile.alloc_counter++, the load.
ThreadLoad(t) ==
    /\ pc[t].at = "load"
    /\ pc' = [pc EXCEPT ![t] = [at |-> "store",
                                loaded |-> sampler.g_alloc_profile.alloc_counter]]
    /\ obs' = [obs EXCEPT !.last_op = "load"]
    /\ UNCHANGED <<sampler, NotSampler>>

\* profile.alloc_counter++, the store.
ThreadStore(t) ==
    /\ pc[t].at = "store"
    /\ sampler' = StoreCounter(sampler, pc[t].loaded)
    /\ pc' = [pc EXCEPT ![t].at = "test"]
    /\ obs' = [obs EXCEPT !.last_op = "store"]
    /\ UNCHANGED NotSampler

\* diff = alloc_counter - last_recorded_alloc; if (diff < skip_every) return
ThreadTest(t) ==
    /\ pc[t].at = "test"
    /\ pc' = [pc EXCEPT ![t].at = IF SamplingSkips(sampler.g_alloc_profile)
                                  THEN "idle" ELSE "mark"]
    /\ obs' = [obs EXCEPT !.last_op = "test"]
    /\ UNCHANGED <<sampler, NotSampler>>

\* profile.last_recorded_alloc = profile.alloc_counter
ThreadMark(t) ==
    /\ pc[t].at = "mark"
    /\ sampler' = MarkRecorded(sampler)
    /\ pc' = [pc EXCEPT ![t].at = "push"]
    /\ obs' = [obs EXCEPT !.last_op = "mark"]
    /\ UNCHANGED NotSampler

\* The rest of the handler; the arguments of the call are drawn here, no
\* step before this one reads them.
ThreadPush(t) ==
    \E val \in ValueAddresses, type \in TypeAddresses, stack \in RawStacks :
        /\ pc[t].at = "push"
        /\ sampler' = PushAlloc(RegisterType(sampler, type), val, type,
                                SizeOfType(type), stack)
        /\ pc' = [pc EXCEPT ![t].at = "idle"]
        /\ obs' = [obs EXCEPT !.last_op = "alloc"]
        /\ UNCHANGED NotSampler

ThreadsNext ==
    \/ ThreadsStart
    \/ \E t \in Threads : ThreadGate(t)
    \/ \E t \in Threads : ThreadLoad(t)
    \/ \E t \in Threads : ThreadStore(t)
    \/ \E t \in Threads : ThreadTest(t)
    \/ \E t \in Threads : ThreadMark(t)
    \/ \E t \in Threads : ThreadPush(t)

SpecThreads == ThreadsInit /\ [][ThreadsNext]_vars

\* What a sequential run of n handler calls records at interval k.
SequentialSamples(n, k) == IF k <= 1 THEN n ELSE n \div k

\* C10 (concurrent hooks lose nothing): when two threads have run the hook
\* concurrently in an active session and both are done, the event counter
\* equals the number of calls and the samples are as many as a sequential
\* order of the same calls records.
C10_NoLostEvents ==
    AllIdle =>
        /\ sampler.g_alloc_profile.alloc_counter = obs.n_calls
        /\ Len(sampler.g_alloc_profile.allocs) =
               SequentialSamples(obs.n_calls,
                                 sampler.g_alloc_profile.skip_every)

(***************************************************************************)
(* SpecSerialize: the call-graph revision again, one session after the     *)
(* other, keeping what every stopped session held and what its stop wrote. *)
(* obs.finished is the set of [contents, out] of the sessions stopped so   *)
(* far.                                                                    *)
(***************************************************************************)
SerInit ==
    /\ graph = GraphGlobals
    /\ obs = [last_op |-> "init", starts |-> 0, samples |-> 0,
              finished |-> {}]
    /\ sampler = SamplerGlobals
    /\ memo = MemoGlobals
    /\ json = JsonGlobals
    /\ trie = TrieGlobals
    /\ pc = NoThreads

\* jl_start_alloc_profile while no session is active.
SerStartStep ==
    \E stream \in {"ios"} :
        /\ ~GateOpen_Graph(graph)
        /\ obs.starts < MaxStarts
        /\ graph' = jl_start_alloc_profile_Graph(graph, stream, obs.starts + 1)
        /\ obs' = [obs EXCEPT !.last_op = "start", !.starts = @ + 1,
                              !.samples = 0]
        /\ UNCHANGED <<NotGraph, pc>>

\* jl_stop_alloc_profile of the active session.
SerStopStep ==
    /\ GateOpen_Graph(graph)
    /\ graph' = jl_stop_alloc_profile_Graph(graph)
    /\ obs' = [obs EXCEPT
                  !.last_op = "stop",
                  !.finished = @ \cup {[contents |-> Contents(graph.profile),
                                        out |-> graph'.stream]}]
    /\ UNCHANGED <<NotGraph, pc>>

\* The hook on the active session.
SerAllocStep ==
    \E type \in TypeAddresses, bt_data \in GraphRawStacks :
        /\ GateOpen_Graph(graph)
        /\ obs.samples < MaxInserts
        /\ graph' = record_allocated_value_Graph(graph, type, bt_data)
        /\ obs' = [obs EXCEPT !.last_op = "alloc", !.samples = @ + 1]
        /\ UNCHANGED <<NotGraph, pc>>

SerNext == SerStartStep \/ SerStopStep \/ SerAllocStep

SpecSerialize == SerInit /\ [][SerNext]_vars

\* C17 (the output is a function of the contents): two finished sessions
\* with the same nodes, counts and type names were written as the same
\* text, statement for statement.
C17_OutputIsFunctionOfContents ==
    \A a, b \in obs.finished : a.contents = b.contents => a.out = b.out

(***************************************************************************)
(* SpecTypeNames: the hook of the call-graph revision called with every    *)
(* kind of type handle: datatypes, handles below 4096, the buffer and      *)
(* malloc tags, the string and symbol types and an object that is not a    *)
(* datatype.  obs keeps the handle of the last call, whether               *)
(* register_type_string had to ask _type_as_string for its name, and what  *)
(* _type_as_string did.                                                    *)
(***************************************************************************)
TypeHandles ==
    TypeAddresses \cup CorruptHandles
        \cup {jl_buff_tag, jl_malloc_tag, jl_string_type, jl_symbol_type,
              NonDatatype}

TypeNamesInit ==
    /\ graph = GraphGlobals
    /\ obs = [last_op |-> "init", starts |-> 0, samples |-> 0,
              handle |-> 0, asked |-> FALSE,
              trace |-> [name |-> "", inspected |-> FALSE]]
    /\ sampler = SamplerGlobals
    /\ memo = MemoGlobals
    /\ json = JsonGlobals
    /\ trie = TrieGlobals
    /\ pc = NoThreads

TypeNamesStartStep ==
    \E stream \in {"ios"} :
        /\ ~GateOpen_Graph(graph)
        /\ obs.starts < MaxStarts
        /\ graph' = jl_start_alloc_profile_Graph(graph, stream, obs.starts + 1)
        /\ obs' = [obs EXCEPT !.last_op = "start", !.starts = @ + 1,
                              !.samples = 0]
        /\ UNCHANGED <<NotGraph, pc>>

TypeNamesStopStep ==
    /\ GateOpen_Graph(graph)
    /\ graph' = jl_stop_alloc_profile_Graph(graph)
    /\ obs' = [obs EXCEPT !.last_op = "stop"]
    /\ UNCHANGED <<NotGraph, pc>>

TypeNamesHookStep ==
    \E type \in TypeHandles, bt_data \in {<<1>>} :
        /\ GateOpen_Graph(graph)
        /\ obs.samples < MaxInserts
        /\ graph' = record_allocated_value_Graph(graph, type, bt_data)
        /\ obs' = [obs EXCEPT
               !.last_op = "alloc", !.samples = @ + 1,
               !.handle = type,
               !.asked = type \notin DOMAIN graph.profile.type_name_by_address,
               !.trace = type_as_string_Trace(type)]
        /\ UNCHANGED <<NotGraph, pc>>

TypeNamesNext == TypeNamesStartStep \/ TypeNamesStopStep \/ TypeNamesHookStep

SpecTypeNames == TypeNamesInit /\ [][TypeNamesNext]_vars

\* C24 (placeholders before inspection): when the hook has asked
\* _type_as_string for the name of a handle, a handle below 4096 is
\* registered as <corrupt>, the buffer tag as <buffer> and the malloc tag
\* as <malloc>, each without the handle being read as a type descriptor;
\* and a handle that was read as a type descriptor is none of these.
C24_PlaceholdersBeforeInspection ==
    (obs.last_op = "alloc" /\ obs.asked) =>
        LET name == graph.profile.type_name_by_address[obs.handle] IN
        /\ name = obs.trace.name
        /\ obs.handle < 4096
               => (name = "<corrupt>" /\ ~obs.trace.inspected)
        /\ obs.handle = jl_buff_tag
               => (name = "<buffer>" /\ ~obs.trace.inspected)
        /\ obs.handle = jl_malloc_tag
               => (name = "<malloc>" /\ ~obs.trace.inspected)
        /\ obs.trace.inspected
               => /\ obs.handle >= 4096
                  /\ obs.handle \notin {jl_buff_tag, jl_malloc_tag}

\* A handle below 4096, the malloc tag and then the buffer tag have been
\* named in one session.
C24_Witness ==
    /\ obs.last_op = "alloc" /\ obs.asked
    /\ obs.handle = jl_buff_tag
    /\ obs.trace = [name |-> "<buffer>", inspected |-> FALSE]
    /\ \E h \in CorruptHandles :
           h \in DOMAIN graph.profile.type_name_by_address
    /\ jl_malloc_tag \in DOMAIN graph.profile.type_name_by_address

(***************************************************************************)
(* SpecCapture: the capture of the raw backtrace.  The thread's call       *)
(* stack grows and shrinks by calls and returns; a capture hands a buffer  *)
(* and an entry limit to rec_backtrace, which writes the innermost entries *)
(* of the stack, at most the limit, starting at the buffer's first entry.  *)
(* memo is [stack, capacity, bt_size, overrun, fault]: the call stack, the *)
(* number of entries the last buffer can hold, the number of entries       *)
(* rec_backtrace reported, the number of entries it wrote past the end of  *)
(* the buffer, and whether that write hit unmapped memory.                 *)
(*                                                                         *)
(* JL_MAX_BT_SIZE and sizeof(jl_bt_element_t) are scaled down.             *)
(***************************************************************************)
JL_MAX_BT_SIZE == 8

SizeofBtElement == 2

MaxDepth == 10

\* rec_backtrace(bt_data, maxsize, skip): the number of entries written,
\* for a call stack of the given depth.
rec_backtrace(depth, maxsize, skip) ==
    LET left == IF depth > skip THEN depth - skip ELSE 0
    IN IF left < maxsize THEN left ELSE maxsize

\* The entries written past the end of a buffer of capacity entries.
Overrun(written, capacity) ==
    IF written > capacity THEN written - capacity ELSE 0

\* malloc(JL_MAX_BT_SIZE): a buffer of JL_MAX_BT_SIZE bytes, counted in
\* entries of sizeof(jl_bt_element_t) bytes.
MallocCapacity(bytes) == bytes \div SizeofBtElement

\* get_stack of the call-graph revision (and of part_004): the buffer is
\* malloc(JL_MAX_BT_SIZE) and the limit is JL_MAX_BT_SIZE.
get_stack_Capture(m, fault) ==
    LET capacity == MallocCapacity(JL_MAX_BT_SIZE)
        bt_size == rec_backtrace(Len(m.stack), JL_MAX_BT_SIZE, 1)
    IN [m EXCEPT !.capacity = capacity, !.bt_size = bt_size,
                 !.overrun = Overrun(bt_size, capacity),
                 !.fault = Overrun(bt_size, capacity) > 0 /\ fault]

\* push_raw_alloc of part_003: the buffer is the local array
\* jl_bt_element_t bt_data[JL_MAX_BT_SIZE] and the limit is JL_MAX_BT_SIZE.
push_raw_alloc_Capture(m, fault) ==
    LET capacity == JL_MAX_BT_SIZE
        bt_size == rec_backtrace(Len(m.stack), JL_MAX_BT_SIZE, 1)
    IN [m EXCEPT !.capacity = capacity, !.bt_size = bt_size,
                 !.overrun = Overrun(bt_size, capacity),
                 !.fault = Overrun(bt_size, capacity) > 0 /\ fault]

CaptureGlobals ==
    [stack |-> <<>>, capacity |-> 0, bt_size |-> 0, overrun |-> 0,
     fault |-> FALSE]

CaptureInit ==
    /\ memo = CaptureGlobals
    /\ obs = [last_op |-> "init"]
    /\ sampler = SamplerGlobals
    /\ graph = GraphGlobals
    /\ json = JsonGlobals
    /\ trie = TrieGlobals
    /\ pc = NoThreads

\* A call: one more entry on the stack (innermost first).
CallStep ==
    \E entry \in {1, 3} :
        /\ ~memo.fault
        /\ Len(memo.stack) < MaxDepth
        /\ memo' = [memo EXCEPT !.stack = <<entry>> \o @]
        /\ obs' = [obs EXCEPT !.last_op = "call"]
        /\ UNCHANGED <<NotMemo, pc>>

ReturnStep ==
    /\ ~memo.fault
    /\ memo.stack # <<>>
    /\ memo' = [memo EXCEPT !.stack = Tail(@)]
    /\ obs' = [obs EXCEPT !.last_op = "return"]
    /\ UNCHANGED <<NotMemo, pc>>

\* A write past the end of the buffer is undefined: it may or may not hit
\* unmapped memory.
GetStackStep ==
    \E fault \in BOOLEAN :
        /\ ~memo.fault
        /\ memo' = get_stack_Capture(memo, fault)
        /\ obs' = [obs EXCEPT !.last_op = "get_stack"]
        /\ UNCHANGED <<NotMemo, pc>>

PushRawAllocStep ==
    \E fault \in BOOLEAN :
        /\ ~memo.fault
        /\ memo' = push_raw_alloc_Capture(memo, fault)
        /\ obs' = [obs EXCEPT !.last_op = "push_raw_alloc"]
        /\ UNCHANGED <<NotMemo, pc>>

CaptureNext == CallStep \/ ReturnStep \/ GetStackStep \/ PushRawAllocStep

SpecCapture == CaptureInit /\ [][CaptureNext]_vars

\* C25 (capture stays inside its buffer): after a capture the number of
\* entries written is at most the number of entries the buffer holds, so
\* nothing was written past its end; a deeper stack is cut to that size.
C25_CaptureWithinBuffer ==
    obs.last_op \in {"get_stack", "push_raw_alloc"} =>
        /\ memo.bt_size <= memo.capacity
        /\ memo.overrun = 0
        /\ ~memo.fault

\* The same for push_raw_alloc of part_003 alone, whose buffer is an
\* array of JL_MAX_BT_SIZE entries.
C25_ArrayCaptureWithinBuffer ==
    obs.last_op = "push_raw_alloc" =>
        /\ memo.bt_size <= memo.capacity
        /\ memo.overrun = 0
        /\ ~memo.fault
        /\ memo.bt_size = IF Len(memo.stack) - 1 > JL_MAX_BT_SIZE
                          THEN JL_MAX_BT_SIZE
                          ELSE IF memo.stack = <<>> THEN 0
                               ELSE Len(memo.stack) - 1

(***************************************************************************)
(* SpecGcReport: the revision of src/unnamed/part_003, lines 111-324,      *)
(* which keeps a list of allocations with resolved stacks, and the         *)
(* collector's hooks _report_gc_started and _report_gc_finished called in  *)
(* every state of it.  The revision lives in the variable trie, with the   *)
(* same globals as the trie revision: g_alloc_profile_out,                 *)
(* g_alloc_profile (0 is nullptr), the profile it points to, the text      *)
(* written to the stream so far, and fault.                                *)
(***************************************************************************)
MaxGcs == 2

\* new AllocProfile{} of part_003: the list of allocations and the type
\* table (the root of the struct is never used).
AllocProfile_List == [allocs |-> <<>>, type_name_by_address |-> EmptyMap]

ListGlobals ==
    [g_alloc_profile_out |-> "nullptr",
     g_alloc_profile |-> 0,
     profile |-> AllocProfile_List,
     stream |-> <<>>,
     fault |-> FALSE]

\* get_stack of part_003: native entries are skipped, interpreter entries
\* give the frames of their inlined-at chain.
RECURSIVE get_stack_List(_)
get_stack_List(bt_data) ==
    IF bt_data = <<>> THEN <<>>
    ELSE IF jl_bt_is_native(Head(bt_data))
         THEN get_stack_List(Tail(bt_data))
         ELSE get_julia_frames_Trie(Head(bt_data))
                  \o get_stack_List(Tail(bt_data))

ListRawStacks == {<<1>>, <<2, 1>>, <<6>>, <<3>>}

jl_start_alloc_profile_List(g, stream, address) ==
    [g EXCEPT !.g_alloc_profile_out = stream,
              !.g_alloc_profile = address,
              !.profile = AllocProfile_List,
              !.stream = <<>>]

\* jl_stop_alloc_profile of part_003: both globals are cleared, nothing is
\* written.
jl_stop_alloc_profile_List(g) ==
    [g EXCEPT !.g_alloc_profile_out = "nullptr", !.g_alloc_profile = 0]

\* _record_allocated_value behind the gate of the header: register the
\* type, resolve the stack, push Alloc{type_address, stack}.
record_allocated_value_List(g, type, bt_data) ==
    IF g.g_alloc_profile_out = "nullptr" THEN g
    ELSE IF g.g_alloc_profile = 0 THEN [g EXCEPT !.fault = TRUE]
    ELSE [g EXCEPT !.profile =
             [register_type_string_Trie(@, type) EXCEPT
                 !.allocs = Append(@, [type_address |-> type,
                                       stack |-> get_stack_List(bt_data)])]]

\* alloc_profile_serialize of part_003: for every allocation the line of
\* its type and one line per frame.
RECURSIVE alloc_profile_serialize_List(_, _)
alloc_profile_serialize_List(profile, i) ==
    IF i > Len(profile.allocs) THEN <<>>
    ELSE LET alloc == profile.allocs[i]
             name == IF alloc.type_address
                            \in DOMAIN profile.type_name_by_address
                     THEN profile.type_name_by_address[alloc.type_address]
                     ELSE ""
         IN <<<<"type", name>>>>
                \o [k \in 1..Len(alloc.stack) |-> <<"frame", alloc.stack[k]>>]
                \o alloc_profile_serialize_List(profile, i + 1)

_report_gc_started(g) == g

\* _report_gc_finished of src/src/gc-alloc-profiler.cpp, lines 437-444,
\* which only prints to stderr.
report_gc_finished_PrintOnly(g) == g

\* _report_gc_finished of part_003, lines 588-600: the stream is tested
\* before the profile is serialized to it and flushed.
report_gc_finished_Guarded(g) ==
    IF g.g_alloc_profile_out # "nullptr"
    THEN IF g.g_alloc_profile = 0 THEN [g EXCEPT !.fault = TRUE]
         ELSE [g EXCEPT !.stream =
                  @ \o alloc_profile_serialize_List(g.profile, 1)]
    ELSE g

\* _report_gc_finished of part_003, lines 315-324: after the line on
\* stderr, alloc_profile_serialize(g_alloc_profile_out, g_alloc_profile)
\* without a test.  With no session both pointers are nullptr and the
\* loop reads profile->allocs through nullptr, which is undefined: crash
\* says whether the read hits unmapped memory or finds nothing to print.
_report_gc_finished(g, crash) ==
    IF g.g_alloc_profile = 0 \/ g.g_alloc_profile_out = "nullptr"
    THEN [g EXCEPT !.fault = crash]
    ELSE [g EXCEPT !.stream =
             @ \o alloc_profile_serialize_List(g.profile, 1)]

GcInit ==
    /\ trie = ListGlobals
    /\ obs = [last_op |-> "init", starts |-> 0, samples |-> 0, gcs |-> 0]
    /\ sampler = SamplerGlobals
    /\ graph = GraphGlobals
    /\ memo = MemoGlobals
    /\ json = JsonGlobals
    /\ pc = NoThreads

GcStartStep ==
    \E stream \in {"ios"} :
        /\ ~trie.fault
        /\ obs.starts < MaxStarts
        /\ trie' = jl_start_alloc_profile_List(trie, stream, obs.starts + 1)
        /\ obs' = [obs EXCEPT !.last_op = "start", !.starts = @ + 1,
                              !.samples = 0, !.gcs = 0]
        /\ UNCHANGED <<NotTrie, pc>>

GcStopStep ==
    /\ ~trie.fault
    /\ trie' = jl_stop_alloc_profile_List(trie)
    /\ obs' = [obs EXCEPT !.last_op = "stop"]
    /\ UNCHANGED <<NotTrie, pc>>

GcAllocStep ==
    \E type \in TypeAddresses, bt_data \in ListRawStacks :
        /\ ~trie.fault
        /\ obs.samples < MaxInserts
        /\ trie' = record_allocated_value_List(trie, type, bt_data)
        /\ obs' = [obs EXCEPT !.last_op = "alloc", !.samples = @ + 1]
        /\ UNCHANGED <<NotTrie, pc>>

GcStartedStep ==
    /\ ~trie.fault
    /\ trie' = _report_gc_started(trie)
    /\ obs' = [obs EXCEPT !.last_op = "gc_started"]
    /\ UNCHANGED <<NotTrie, pc>>

GcFinishedStep ==
    \E crash \in BOOLEAN :
        /\ ~trie.fault
        /\ obs.gcs < MaxGcs
        /\ trie' = _report_gc_finished(trie, crash)
        /\ obs' = [obs EXCEPT !.last_op = "gc_finished", !.gcs = @ + 1]
        /\ UNCHANGED <<NotTrie, pc>>

GcFinishedGuardedStep ==
    /\ ~trie.fault
    /\ obs.gcs < MaxGcs
    /\ trie' = report_gc_finished_Guarded(trie)
    /\ obs' = [obs EXCEPT !.last_op = "gc_finished_guarded", !.gcs = @ + 1]
    /\ UNCHANGED <<NotTrie, pc>>

GcFinishedPrintStep ==
    /\ ~trie.fault
    /\ trie' = report_gc_finished_PrintOnly(trie)
    /\ obs' = [obs EXCEPT !.last_op = "gc_finished_print"]
    /\ UNCHANGED <<NotTrie, pc>>

GcNext ==
    \/ GcStartStep \/ GcStopStep \/ GcAllocStep \/ GcStartedStep
    \/ GcFinishedStep \/ GcFinishedGuardedStep \/ GcFinishedPrintStep

SpecGcReport == GcInit /\ [][GcNext]_vars

\* The session of the list revision: the two globals and the profile.
Session_List(g) ==
    <<g.g_alloc_profile_out, g.g_alloc_profile, g.profile>>

\* C26 (the collector's hooks are harmless): a call of _report_gc_started
\* or of _report_gc_finished, in any state, leaves the session as it was
\* and dereferences no null session or stream.
C26_GcHooksAreHarmless ==
    [][obs'.last_op \in {"gc_started", "gc_finished", "gc_finished_guarded",
                        "gc_finished_print"}
           => /\ ~trie'.fault
              /\ Session_List(trie') = Session_List(trie)]_vars

\* C26 for the hooks other than the unguarded _report_gc_finished of
\* part_003, lines 315-324.
C26_GuardedGcHooksAreHarmless ==
    [][obs'.last_op \in {"gc_started", "gc_finished_guarded",
                        "gc_finished_print"}
           => /\ ~trie'.fault
              /\ Session_List(trie') = Session_List(trie)]_vars

(***************************************************************************)
(* SpecEscape: print_str_escape_dot of src/src/gc-alloc-profiler.cpp and   *)
(* print_str_escape_json of src/unnamed/part_002 applied to strings that   *)
(* grow one character at a time.  A character is its byte value; the       *)
(* output is the sequence of bytes written to the stream.  memo is         *)
(* [s, dot, json]: the string and what each function wrote for it.         *)
(***************************************************************************)
MaxStringLen == 3

\* The characters of the model: the quote, the backslash, backspace, line
\* feed, two other control characters, the letters that follow a
\* backslash in an escape (u, n, b), the digits 0 and 1, a letter and a
\* byte above 0x7f.
EscapeAlphabet == {34, 92, 8, 10, 1, 31, 117, 110, 98, 48, 49, 97, 200}

\* One digit of %x.
HexDigit(d) == IF d < 10 THEN 48 + d ELSE 87 + d

\* "%04x" of (int)*c.
Format04x(n) ==
    <<HexDigit((n \div 4096) % 16), HexDigit((n \div 256) % 16),
      HexDigit((n \div 16) % 16), HexDigit(n % 16)>>

\* The switch with the backslash written as it is.
EscapeChar_RawBackslash(c) ==
    CASE c = 34 -> <<92, 34>>
      [] c = 8 -> <<92, 98>>
      [] c = 12 -> <<92, 102>>
      [] c = 10 -> <<92, 110>>
      [] c = 13 -> <<92, 114>>
      [] c = 9 -> <<92, 116>>
      [] OTHER -> IF 0 <= c /\ c <= 31
                  THEN <<92, 117>> \o Format04x(c)
                  ELSE <<c>>

\* The switch of the loop body: what is written for one character.
EscapeChar(c) ==
    CASE c = 34 -> <<92, 34>>
      [] c = 92 -> <<92, 92>>
      [] c = 8 -> <<92, 98>>
      [] c = 12 -> <<92, 102>>
      [] c = 10 -> <<92, 110>>
      [] c = 13 -> <<92, 114>>
      [] c = 9 -> <<92, 116>>
      [] OTHER -> IF 0 <= c /\ c <= 31
                  THEN <<92, 117>> \o Format04x(c)
                  ELSE <<c>>

RECURSIVE EscapeLoop(_)
EscapeLoop(str) ==
    IF str = <<>> THEN <<>>
    ELSE EscapeChar(Head(str)) \o EscapeLoop(Tail(str))

print_str_escape_dot(str) == <<34>> \o EscapeLoop(str) \o <<34>>

print_str_escape_json(str) == <<34>> \o EscapeLoop(str) \o <<34>>

EscapeInit ==
    /\ memo = [s |-> <<>>, dot |-> print_str_escape_dot(<<>>),
               json |-> print_str_escape_json(<<>>)]
    /\ obs = [last_op |-> "init"]
    /\ sampler = SamplerGlobals
    /\ graph = GraphGlobals
    /\ json = JsonGlobals
    /\ trie = TrieGlobals
    /\ pc = NoThreads

\* The two functions called on a string one character longer.
EscapeStep ==
    \E c \in EscapeAlphabet :
        /\ Len(memo.s) < MaxStringLen
        /\ memo' = [s |-> Append(memo.s, c),
                    dot |-> print_str_escape_dot(Append(memo.s, c)),
                    json |-> print_str_escape_json(Append(memo.s, c))]
        /\ obs' = [obs EXCEPT !.last_op = "escape"]
        /\ UNCHANGED <<NotMemo, pc>>

EscapeNext == EscapeStep

SpecEscape == EscapeInit /\ [][EscapeNext]_vars

\* The value of a hexadecimal digit, or 16 for any other character.
HexValue(ch) ==
    IF 48 <= ch /\ ch <= 57 THEN ch - 48
    ELSE IF 97 <= ch /\ ch <= 102 THEN ch - 87 ELSE 16

\* Reading escaped text back: [ok, s].  The text is refused (ok is FALSE)
\* when it holds a quote, a control character or a backslash that is not
\* part of an escape sequence.
RECURSIVE Unescape(_)
Unescape(text) ==
    IF text = <<>> THEN [ok |-> TRUE, s |-> <<>>]
    ELSE IF Head(text) = 92
    THEN IF Len(text) < 2 THEN [ok |-> FALSE, s |-> <<>>]
         ELSE IF text[2] = 117
         THEN IF Len(text) < 6
                  \/ \E k \in 3..6 : HexValue(text[k]) = 16
              THEN [ok |-> FALSE, s |-> <<>>]
              ELSE LET rest == Unescape(SubSeq(text, 7, Len(text)))
                       code == HexValue(text[3]) * 4096
                                   + HexValue(text[4]) * 256
                                   + HexValue(text[5]) * 16
                                   + HexValue(text[6])
                   IN [ok |-> rest.ok, s |-> <<code>> \o rest.s]
         ELSE IF text[2] \in {34, 92, 98, 102, 110, 114, 116}
         THEN LET rest == Unescape(SubSeq(text, 3, Len(text)))
                  code == CASE text[2] = 34 -> 34
                            [] text[2] = 92 -> 92
                            [] text[2] = 98 -> 8
                            [] text[2] = 102 -> 12
                            [] text[2] = 110 -> 10
                            [] text[2] = 114 -> 13
                            [] OTHER -> 9
              IN [ok |-> rest.ok, s |-> <<code>> \o rest.s]
         ELSE [ok |-> FALSE, s |-> <<>>]
    ELSE IF Head(text) = 34 \/ Head(text) <= 31
    THEN [ok |-> FALSE, s |-> <<>>]
    ELSE LET rest == Unescape(Tail(text))
         IN [ok |-> rest.ok, s |-> <<Head(text)>> \o rest.s]

\* The output is the quoted form of the string: a quote, text in which
\* quotes, backslashes and control characters occur in escape sequences
\* only and which reads back as the string, and a quote.
QuotedFormOf(out, str) ==
    /\ Len(out) >= 2
    /\ out[1] = 34 /\ out[Len(out)] = 34
    /\ LET back == Unescape(SubSeq(out, 2, Len(out) - 1))
       IN back.ok /\ back.s = str

\* C27 (escaping): what print_str_escape_dot and print_str_escape_json
\* write for a string is the string between double quotes, with every
\* double quote, backslash and control character in escaped form only,
\* and the string can be recovered from it, so two different strings are
\* never written alike.
C27_EscapingIsInvertible ==
    /\ QuotedFormOf(memo.dot, memo.s)
    /\ QuotedFormOf(memo.json, memo.s)

\* A backslash followed by the letter n and a control character has been
\* written.
C27_Witness ==
    /\ memo.s = <<92, 110, 1>>
    /\ memo.dot = <<34, 92, 92, 110, 92, 117, 48, 48, 48, 49, 34>>
    /\ memo.json = memo.dot

(***************************************************************************)
(* SpecCache: calls of get_frames on one GraphBuilder and calls of         *)
(* stacktrace_memoized on one BacktraceCache.  obs keeps, for the last     *)
(* call, its input, its result and what the cache held before it; and     *)
(* the result of the first call for every input.                           *)
(***************************************************************************)
MaxLookups == 4

CacheTraces ==
    {<<e>> : e \in CacheEntries}
    \cup {<<<<1>>, <<WordMax, 1, 7>>>>, <<<<2>>, <<2>>>>,
          <<<<257>>, <<1>>>>}

CacheInit ==
    /\ memo = MemoGlobals
    /\ json = JsonGlobals
    /\ obs = [last_op |-> "init", lookups |-> 0,
              entry |-> <<>>, frames |-> <<>>, resolved |-> FALSE,
              cached_before |-> FALSE, first |-> EmptyMap,
              trace |-> <<>>, c_funcs |-> TRUE, stack |-> <<>>,
              misses |-> 0, first_stack |-> EmptyMap]
    /\ sampler = SamplerGlobals
    /\ trie = TrieGlobals
    /\ graph = GraphGlobals
    /\ pc = NoThreads

GetFramesStep ==
    \E entry \in CacheEntries :
        LET r == get_frames(memo.builder, entry, jl_bt_entry_size(entry),
                            jl_bt_is_native_Words(entry))
        IN
        /\ obs.lookups < MaxLookups
        /\ memo' = [memo EXCEPT !.builder = r.builder]
        /\ obs' = [obs EXCEPT
                      !.last_op = "get_frames", !.lookups = @ + 1,
                      !.entry = entry, !.frames = r.frames,
                      !.resolved = r.resolved,
                      !.cached_before = entry \in DOMAIN obs.first,
                      !.first = IF entry \in DOMAIN @ THEN @
                                ELSE MapPut(@, entry, r.frames)]
        /\ UNCHANGED <<NotMemo, pc>>

MemoizedStep ==
    \E trace \in CacheTraces, c_funcs \in BOOLEAN :
        LET r == stacktrace_memoized(memo.cache, trace, c_funcs)
            call == <<trace, c_funcs>>
        IN
        /\ obs.lookups < MaxLookups
        /\ memo' = [memo EXCEPT !.cache = r.cache]
        /\ obs' = [obs EXCEPT
                      !.last_op = "stacktrace_memoized", !.lookups = @ + 1,
                      !.trace = trace, !.c_funcs = c_funcs,
                      !.stack = r.stack, !.misses = r.lookups,
                      !.cached_before =
                          \A i \in 1..Len(trace) :
                              trace[i] \in DOMAIN memo.cache,
                      !.first_stack = IF call \in DOMAIN @ THEN @
                                      ELSE MapPut(@, call, r.stack)]
        /\ UNCHANGED <<NotMemo, pc>>

CacheNext == GetFramesStep \/ MemoizedStep

SpecCache == CacheInit /\ [][CacheNext]_vars

\* All frames of the entries of a trace, resolved afresh.
RECURSIVE ResolveTrace(_, _)
ResolveTrace(trace, c_funcs) ==
    IF trace = <<>> THEN <<>>
    ELSE KeptFrames(ResolveEntry(Head(trace)), c_funcs)
             \o ResolveTrace(Tail(trace), c_funcs)

\* C13 (the cache): a second resolution of the same raw entry returns the
\* frames of the first without calling the resolver, and the key is the
\* entry's bytes: every entry gets its own frames, those the resolver
\* gives for it, whatever other entries are in the cache.  The same for
\* stacktrace_memoized and its trace.
C13_CacheHitSkipsResolver ==
    /\ obs.last_op = "get_frames" =>
          /\ obs.frames = ResolveEntry(obs.entry)
          /\ obs.frames = obs.first[obs.entry]
          /\ obs.cached_before => ~obs.resolved
          /\ \A e1, e2 \in DOMAIN obs.first :
                 e1 # e2 => frame_as_string(e1, jl_bt_entry_size(e1))
                                # frame_as_string(e2, jl_bt_entry_size(e2))
    /\ obs.last_op = "stacktrace_memoized" =>
          /\ obs.stack = ResolveTrace(obs.trace, obs.c_funcs)
          /\ obs.stack = obs.first_stack[<<obs.trace, obs.c_funcs>>]
          /\ obs.cached_before => obs.misses = 0

\* A second get_frames call for <<257>>, answered from the cache while
\* <<1>> is cached as well.
C13_Witness ==
    /\ obs.last_op = "get_frames"
    /\ obs.entry = <<257>> /\ obs.cached_before /\ ~obs.resolved
    /\ <<1>> \in DOMAIN obs.first
    /\ memo.builder.cache_hits >= 1

(***************************************************************************)
(* SpecEndToEnd: a session of the trie revision whose recorded events are  *)
(* also the allocs of the AllocResults handed to write_as_json_help when   *)
(* the session is stopped.  Every event is recorded, as at interval 1.     *)
(***************************************************************************)
E2EInit ==
    /\ trie = TrieGlobals
    /\ json = JsonGlobals
    /\ obs = [last_op |-> "init", starts |-> 0, samples |-> 0]
    /\ sampler = SamplerGlobals
    /\ memo = MemoGlobals
    /\ graph = GraphGlobals
    /\ pc = NoThreads

E2EStartStep ==
    \E stream \in {"ios"} :
        /\ ~trie.fault
        /\ obs.starts < MaxStarts
        /\ trie' = jl_start_alloc_profile_Trie(trie, stream, obs.starts + 1)
        /\ json' = JsonGlobals
        /\ obs' = [obs EXCEPT !.last_op = "start", !.starts = @ + 1,
                              !.samples = 0]
        /\ UNCHANGED <<sampler, graph, memo, pc>>

E2EAllocStep ==
    \E type \in TypeAddresses, bt_data \in TrieRawStacks :
        LET recorded == trie.g_alloc_profile_out # "nullptr" IN
        /\ ~trie.fault
        /\ obs.samples < MaxInserts
        /\ trie' = record_allocated_value_Trie(trie, type, bt_data)
        /\ json' = IF recorded
                   THEN [json EXCEPT !.profile.allocs =
                            Append(@, Alloc(type, get_stack_Trie(bt_data),
                                            SizeOfType(type)))]
                   ELSE json
        /\ obs' = [obs EXCEPT !.last_op = "alloc",
                              !.samples = IF recorded THEN @ + 1 ELSE @]
        /\ UNCHANGED <<sampler, graph, memo, pc>>

E2EStopStep ==
    /\ ~trie.fault
    /\ trie' = jl_stop_alloc_profile_Trie(trie)
    /\ json' = IF trie'.fault THEN json
               ELSE [json EXCEPT !.out = write_as_json_help(json.profile)]
    /\ obs' = [obs EXCEPT !.last_op = "stop"]
    /\ UNCHANGED <<sampler, graph, memo, pc>>

E2ENext == E2EStartStep \/ E2EAllocStep \/ E2EStopStep

SpecEndToEnd == E2EInit /\ [][E2ENext]_vars

\* The frame main of the scenario: what backtrace <<1>> resolves to.
MainFrame == get_stack_Trie(<<1>>)[1]

ThreeFromMain ==
    LET a == Alloc(8192, <<MainFrame>>, SizeOfType(8192)) IN <<a, a, a>>

RowsWithId(table, id) == {r \in 1..Len(table) : table[r].id = id}

\* The ids of a table of n rows are exactly 0..n-1, one row each.
IdsAreDense(table) ==
    \A id \in 0..(Len(table) - 1) : Cardinality(RowsWithId(table, id)) = 1

\* C19 (interned output): write_as_json_help gives one record per
\* allocation of the profile, in the order of the profile, with the size
\* of the allocation; every id in a record's stack has exactly one row in
\* the locations table, and that row is the frame's string; every type_id
\* has exactly one row in the types table, and that row is the type's
\* name; two frames (types) have the same id exactly when they are the
\* same frame (type); and the ids of each table are exactly 0..n-1.
C19_InternedIdsAreConsistent ==
    (obs.last_op = "stop" /\ ~trie.fault) =>
        LET allocs == json.profile.allocs
            out == json.out
            Sites == UNION {{<<i, p>> : p \in 1..Len(allocs[i].stacktrace)} :
                               i \in 1..Len(allocs)}
        IN /\ Len(out.allocs) = Len(allocs)
           /\ \A i \in 1..Len(allocs) :
                  /\ Len(out.allocs[i].stack) = Len(allocs[i].stacktrace)
                  /\ out.allocs[i].size = allocs[i].bytes_allocated
                  /\ Cardinality(RowsWithId(out.types,
                                            out.allocs[i].type_id)) = 1
                  /\ \A r \in RowsWithId(out.types, out.allocs[i].type_id) :
                         out.types[r].name = TypeName(allocs[i].type)
           /\ \A s \in Sites :
                  /\ Cardinality(RowsWithId(out.locations,
                         out.allocs[s[1]].stack[s[2]])) = 1
                  /\ \A r \in RowsWithId(out.locations,
                                          out.allocs[s[1]].stack[s[2]]) :
                         out.locations[r].loc = stack_frame_to_string(
                             allocs[s[1]].stacktrace[s[2]])
           /\ \A s, t \in Sites :
                  (allocs[s[1]].stacktrace[s[2]]
                       = allocs[t[1]].stacktrace[t[2]])
                  <=> (out.allocs[s[1]].stack[s[2]]
                           = out.allocs[t[1]].stack[t[2]])
           /\ \A i, j \in 1..Len(allocs) :
                  (allocs[i].type = allocs[j].type)
                  <=> (out.allocs[i].type_id = out.allocs[j].type_id)
           /\ IdsAreDense(out.locations)
           /\ IdsAreDense(out.types)
           /\ Len(out.locations)
                  = Cardinality({allocs[s[1]].stacktrace[s[2]] : s \in Sites})
           /\ Len(out.types)
                  = Cardinality({allocs[i].type : i \in 1..Len(allocs)})

\* A stopped session of three allocations of two types, in which a frame
\* is met again and a new frame follows it, has been written.
C19_Witness ==
    /\ obs.last_op = "stop" /\ ~trie.fault
    /\ Len(json.out.allocs) = 3
    /\ Len(json.out.types) = 2
    /\ Len(json.out.locations) >= 2
    /\ json.out.allocs[1].stack = json.out.allocs[2].stack
    /\ json.out.allocs[3].stack # json.out.allocs[1].stack
    /\ json.out.allocs[1].stack # <<>>


(***************************************************************************)
(* SpecDecode: the revision in which the Julia module owns the profile.    *)
(* stdlib/AllocProfile/src/AllocProfile.jl, lines 126-315 (RawAllocProfile,*)
(* start, stop, _reformat_bt_custom, decode) with its runtime side,        *)
(* src/unnamed/part_003, lines 1-110 (push_raw_alloc and the hook), and    *)
(* write_as_json of stdlib/AllocProfile/src/write_as_json.jl.  The state   *)
(* is in json: the gate, g_profile[] (which g_alloc_profile points to),    *)
(* the AllocResults of the last decode (decoded tells whether there is     *)
(* one) and what the last write_as_json gave (a text or what it threw).    *)
(*  obs.recorded is the type tag and the size that the hook handed   *)
(* to push_raw_alloc for every raw allocation since the last start.        *)
(***************************************************************************)
NotJson == <<sampler, trie, graph, memo>>

\* RawAllocProfile(skip_every)
RawAllocProfile(skip_every) ==
    [alloc_types |-> <<>>, alloc_sizes |-> <<>>,
     alloc_bts |-> <<>>, alloc_bt2s |-> <<>>,
     skip_every |-> skip_every, alloc_counter |-> 0,
     last_recorded_alloc |-> 0]

\* const g_profile = Ref{RawAllocProfile}() and the globals of part_003.
DecodeGlobals ==
    [g_alloc_profile_enabled |-> FALSE,
     g_profile_assigned |-> FALSE, g_profile |-> RawAllocProfile(0),
     decoded |-> "none",
     results |-> [allocs |-> <<>>, frees |-> EmptyMap, bt2_length |-> 0],
     text |-> [threw |-> "nothing"]]

\* An interpreter frame's descriptor word: one jl_value_t, no integer
\* values, tag JL_BT_INTERP_FRAME_TAG, header 0.
InterpDescriptor == 1 + 64 * 1

\* The buffers rec_backtrace fills: native instruction pointers, and an
\* extended entry (marker, descriptor, code) followed by a native one.
DecodeRawStacks ==
    {<<1>>, <<2, 1>>, <<WordMax, InterpDescriptor, 7, 1>>}

\* The jl_value_t slots of the extended entries of a buffer, in order.
RECURSIVE JlValuesOf(_, _)
JlValuesOf(bt_data, i) ==
    IF i > Len(bt_data) THEN <<>>
    ELSE IF bt_data[i] # WordMax THEN JlValuesOf(bt_data, i + 1)
    ELSE LET njlvalues == bt_data[i + 1] % 8
             nuintvals == (bt_data[i + 1] \div 8) % 8
         IN SubSeq(bt_data, i + 2, i + 1 + njlvalues)
                \o JlValuesOf(bt_data, i + 2 + njlvalues + nuintvals)

\* decode_backtrace(bt_data, bt_size, &bt, &bt2): the words as an array
\* and the Julia values the extended entries refer to.
decode_backtrace(bt_data) ==
    [bt |-> bt_data, bt2 |-> JlValuesOf(bt_data, 1)]

\* push_raw_alloc(profile, type_tag, bytes_allocated): the two pushes to
\* alloc_types and alloc_sizes are commented out.
push_raw_alloc(profile, type_tag, bytes_allocated, bt_data) ==
    LET arrays == decode_backtrace(bt_data) IN
    [profile EXCEPT !.alloc_bts = Append(@, arrays.bt),
                    !.alloc_bt2s = Append(@, arrays.bt2)]

\* start(skip_every) of the module and jl_start_alloc_profile.
start_Julia(j, skip_every) ==
    [j EXCEPT !.g_profile = RawAllocProfile(skip_every),
              !.g_profile_assigned = TRUE,
              !.g_alloc_profile_enabled = TRUE]

\* stop() of the module and jl_stop_alloc_profile.
stop_Julia(j) == [j EXCEPT !.g_alloc_profile_enabled = FALSE]

\* Whether _record_allocated_value records the call it is handling.
RecordsThisCall(profile) ==
    (profile.alloc_counter + 1) - profile.last_recorded_alloc
        >= profile.skip_every

\* record_allocated_value (the gate) and _record_allocated_value.
record_allocated_value_Julia(j, type_tag, size, bt_data) ==
    IF ~j.g_alloc_profile_enabled THEN j
    ELSE LET counted == [j.g_profile EXCEPT !.alloc_counter = @ + 1] IN
         IF ~RecordsThisCall(j.g_profile)
         THEN [j EXCEPT !.g_profile = counted]
         ELSE [j EXCEPT !.g_profile =
                  push_raw_alloc(
                      [counted EXCEPT !.last_recorded_alloc =
                                          counted.alloc_counter],
                      type_tag, size, bt_data)]

\* _reformat_bt_custom(bt, bt2) from position i of bt and j of bt2: the
\* trace as entries, a native one as <<ip>> and InterpreterIP(code,
\* header, mod) as <<marker, header, code>>; "ArgumentError" where an
\* entry has an unknown tag.
RECURSIVE _reformat_bt_custom(_, _, _, _)
_reformat_bt_custom(bt, bt2, i, j) ==
    IF i > Len(bt) THEN <<>>
    ELSE IF bt[i] # WordMax
    THEN <<<<bt[i]>>>> \o _reformat_bt_custom(bt, bt2, i + 1, j)
    ELSE LET entry_metadata == bt[i + 1]
             njlvalues == entry_metadata % 8
             nuintvals == (entry_metadata \div 8) % 8
             tag == (entry_metadata \div 64) % 16
             header == entry_metadata \div 1024
         IN IF tag = 1
            THEN <<<<WordMax, header, bt2[j]>>>>
                     \o _reformat_bt_custom(bt, bt2,
                            i + 2 + njlvalues + nuintvals, j + njlvalues)
            ELSE <<"ArgumentError">>

\* The type every decoded allocation is given: Int, one of the types of
\* the model.
IntType == 8192

\* size = 5 # TODO: grab this
DecodedSize == 5

\* The sum of length(bt2) over the raw allocations.
RECURSIVE Bt2Length(_)
Bt2Length(alloc_bt2s) ==
    IF alloc_bt2s = <<>> THEN 0
    ELSE Len(Head(alloc_bt2s)) + Bt2Length(Tail(alloc_bt2s))

\* The loop of decode: the allocations of raw allocations i and later,
\* with the cache as it is when the loop reaches i.
RECURSIVE DecodeLoop(_, _, _)
DecodeLoop(raw_results, cache, i) ==
    IF i > Len(raw_results.alloc_bts) THEN <<>>
    ELSE LET back_trace == _reformat_bt_custom(raw_results.alloc_bts[i],
                                               raw_results.alloc_bt2s[i],
                                               1, 1)
             memoized == stacktrace_memoized(cache, back_trace, TRUE)
         IN <<Alloc(IntType, memoized.stack, DecodedSize)>>
                \o DecodeLoop(raw_results, memoized.cache, i + 1)

\* decode(raw_results), past its @assert.
decode(raw_results) ==
    [allocs |-> DecodeLoop(raw_results, EmptyMap, 1),
     frees |-> EmptyMap,
     bt2_length |-> Bt2Length(raw_results.alloc_bt2s)]

\* JSON3.write(val): the text of a value, a different text for a
\* different value.
JSON3_write(val) == [text_of |-> val]

\* JSON3.write(): no method of JSON3.write takes no argument.
JSON3_write_NoArgument == [threw |-> "MethodError"]

\* write_as_json(profile): val is computed and printed, and JSON3.write
\* is called without it.
write_as_json(profile) ==
    LET val == write_as_json_help(profile) IN JSON3_write_NoArgument

DecodeInit ==
    /\ json = DecodeGlobals
    /\ obs = [last_op |-> "init", starts |-> 0, calls |-> 0,
              recorded |-> <<>>]
    /\ sampler = SamplerGlobals
    /\ trie = TrieGlobals
    /\ graph = GraphGlobals
    /\ memo = MemoGlobals
    /\ pc = NoThreads

DecodeStartStep ==
    \E skip_every \in {0, MaxSkip} :
        /\ obs.starts < MaxStarts
        /\ json' = start_Julia(json, skip_every)
        /\ obs' = [obs EXCEPT !.last_op = "start", !.starts = @ + 1,
                              !.recorded = <<>>]
        /\ UNCHANGED <<NotJson, pc>>

DecodeStopStep ==
    /\ json' = stop_Julia(json)
    /\ obs' = [obs EXCEPT !.last_op = "stop"]
    /\ UNCHANGED <<NotJson, pc>>

DecodeAllocStep ==
    \E type \in TypeAddresses, bt_data \in DecodeRawStacks :
        /\ obs.calls < MaxCalls
        /\ json' = record_allocated_value_Julia(json, type,
                                                SizeOfType(type), bt_data)
        /\ obs' = [obs EXCEPT
               !.last_op = "alloc", !.calls = @ + 1,
               !.recorded =
                   IF json.g_alloc_profile_enabled
                          /\ RecordsThisCall(json.g_profile)
                   THEN Append(@, [type |-> type,
                                   size |-> SizeOfType(type)])
                   ELSE @]
        /\ UNCHANGED <<NotJson, pc>>

\* results = AllocProfile.decode(AllocProfile.g_profile[])
DecodeStep ==
    /\ json.g_profile_assigned
    /\ json' =
           IF Len(json.g_profile.alloc_bts) # Len(json.g_profile.alloc_bt2s)
           THEN [json EXCEPT !.decoded = "AssertionError"]
           ELSE [json EXCEPT !.decoded = "ok",
                             !.results = decode(json.g_profile)]
    /\ obs' = [obs EXCEPT !.last_op = "decode"]
    /\ UNCHANGED <<NotJson, pc>>

\* json = AllocProfile.write_as_json(results)
WriteAsJsonStep ==
    /\ json.decoded = "ok"
    /\ json' = [json EXCEPT !.text = write_as_json(json.results)]
    /\ obs' = [obs EXCEPT !.last_op = "write_as_json"]
    /\ UNCHANGED <<NotJson, pc>>

DecodeNext ==
    \/ DecodeStartStep \/ DecodeStopStep \/ DecodeAllocStep
    \/ DecodeStep \/ WriteAsJsonStep

SpecDecode == DecodeInit /\ [][DecodeNext]_vars

\* A session was started, recorded at least one raw allocation and was
\* stopped, and its profile has just been decoded.
DecodedAfterSession ==
    /\ obs.last_op = "decode" /\ json.decoded = "ok"
    /\ ~json.g_alloc_profile_enabled
    /\ obs.recorded # <<>>

\* C28 (decode): after start, at least one allocation and stop, decode
\* returns one Alloc per recorded raw allocation, in recording order,
\* each with a non-empty stack trace and with the type and the byte size
\* recorded for that allocation.
C28_DecodeReturnsRecordedTypeAndSize ==
    DecodedAfterSession =>
        /\ Len(json.results.allocs) = Len(obs.recorded)
        /\ \A i \in 1..Len(obs.recorded) :
               /\ json.results.allocs[i].stacktrace # <<>>
               /\ json.results.allocs[i].type = obs.recorded[i].type
               /\ json.results.allocs[i].bytes_allocated
                      = obs.recorded[i].size

\* What does hold of decode: one Alloc per raw allocation, in recording
\* order (the stack trace is that of the raw allocation's backtrace),
\* each with a non-empty stack trace and a positive byte size.
C28_OneAllocPerRawAllocation ==
    DecodedAfterSession =>
        /\ Len(json.results.allocs) = Len(obs.recorded)
        /\ \A i \in 1..Len(obs.recorded) :
               /\ json.results.allocs[i].stacktrace # <<>>
               /\ json.results.allocs[i].stacktrace
                      = ResolveTrace(
                            _reformat_bt_custom(json.g_profile.alloc_bts[i],
                                                json.g_profile.alloc_bt2s[i],
                                                1, 1), TRUE)
               /\ json.results.allocs[i].bytes_allocated > 0

\* C36 (the arrays of the raw profile): in a RawAllocProfile filled by
\* the hook, alloc_bts, alloc_bt2s, alloc_types and alloc_sizes have the
\* same length after any number of recorded allocations, which is what
\* decode asserts before it reads them.
C36_RawArraysHaveSameLength ==
    json.g_profile_assigned =>
        /\ Len(json.g_profile.alloc_bts) = Len(json.g_profile.alloc_bt2s)
        /\ Len(json.g_profile.alloc_bts) = Len(json.g_profile.alloc_types)
        /\ Len(json.g_profile.alloc_bts) = Len(json.g_profile.alloc_sizes)

\* What does hold: the two backtrace arrays have the same length, one
\* element for every recorded allocation, and decode's assertion on
\* these two never fails.
C36_BacktraceArraysHaveSameLength ==
    /\ json.decoded # "AssertionError"
    /\ json.g_profile_assigned =>
           /\ Len(json.g_profile.alloc_bts) = Len(obs.recorded)
           /\ Len(json.g_profile.alloc_bt2s) = Len(obs.recorded)

\* C29 (write_as_json): what write_as_json(results) returns is the JSON
\* text of write_as_json_help(results), a non-empty text, for every
\* decoded profile.
C29_WriteAsJsonEncodesHelp ==
    obs.last_op = "write_as_json" =>
        json.text = JSON3_write(write_as_json_help(json.results))

(***************************************************************************)
(* SpecSkip: the revision of src/unnamed/part_004 that keeps the raw       *)
(* backtrace of every allocation and builds the call graph when the        *)
(* session is stopped (record_alloc, build_alloc_graph,                    *)
(* alloc_graph_serialize).  The state is in memo: the two globals, the     *)
(* profile, and the graph, the counters of the builder and the statements  *)
(* written by the last stop.  A backtrace is the sequence of its entries.  *)
(* obs.allocs is the allocs of the profile that the last stop built the    *)
(* graph from.                                                             *)
(***************************************************************************)
SKIP_FRAMES == 2

SkipRawStacks ==
    {<<<<1>>>>, <<<<3>>>>, <<<<1>>, <<2>>>>, <<<<3>>, <<2>>>>,
     <<<<3>>, <<3>>>>, <<<<WordMax, 1, 263>>, <<3>>>>}

\* new AllocProfile{} of part_004.
AllocProfile_Raw == [allocs |-> <<>>, type_name_by_address |-> EmptyMap]

\* new AllocGraph()
AllocGraph == [nodes |-> EmptyMap, type_name_by_address |-> EmptyMap]

SkipGlobals ==
    [g_alloc_profile_out |-> "nullptr", g_alloc_profile |-> 0,
     profile |-> AllocProfile_Raw, graph |-> AllocGraph,
     cache_hits |-> 0, cache_misses |-> 0, stream |-> {}]

\* The loop of record_alloc over the frames of one entry, count frames of
\* the entry having been looked at.  st is [nodes, prev_frame_label].
RECURSIVE RecordFrames(_, _, _, _)
RecordFrames(st, frames, count, type_address) ==
    IF frames = <<>> THEN st
    ELSE IF count < SKIP_FRAMES
    THEN RecordFrames(st, Tail(frames), count + 1, type_address)
    ELSE LET frame == Head(frames)
             frame_label == frame.func_name
             inserted == get_or_insert_node(st.nodes, frame_label,
                                            frame.is_native)
             updated ==
                 IF st.prev_frame_label = ""
                 THEN [inserted EXCEPT ![frame_label] =
                           incr_or_add_alloc(@, type_address)]
                 ELSE [inserted EXCEPT ![frame_label] =
                           add_call_edge(@, st.prev_frame_label)]
         IN RecordFrames([nodes |-> updated,
                          prev_frame_label |-> frame_label],
                         Tail(frames), count, type_address)

\* The while loop of record_alloc over the entries of the backtrace: st
\* is [builder, nodes, prev_frame_label]; count starts at 0 for every
\* entry.
RECURSIVE RecordStack(_, _, _)
RecordStack(st, stack, type_address) ==
    IF stack = <<>> THEN st
    ELSE LET entry == Head(stack)
             got == get_frames(st.builder, entry, jl_bt_entry_size(entry),
                               jl_bt_is_native_Words(entry))
             done == RecordFrames([nodes |-> st.nodes,
                                   prev_frame_label |-> st.prev_frame_label],
                                  got.frames, 0, type_address)
         IN RecordStack([builder |-> got.builder, nodes |-> done.nodes,
                         prev_frame_label |-> done.prev_frame_label],
                        Tail(stack), type_address)

\* record_alloc(builder, stack, type_address) of part_004: b is
\* [builder, nodes].
record_alloc_Builder(b, stack, type_address) ==
    LET st == RecordStack([builder |-> b.builder, nodes |-> b.nodes,
                           prev_frame_label |-> ""], stack, type_address)
    IN [builder |-> st.builder, nodes |-> st.nodes]

\* The loop of build_alloc_graph over profile->allocs.
RECURSIVE BuildLoop(_, _)
BuildLoop(b, allocs) ==
    IF allocs = <<>> THEN b
    ELSE BuildLoop(record_alloc_Builder(b, Head(allocs).backtrace,
                                        Head(allocs).type_id),
                   Tail(allocs))

\* build_alloc_graph(profile): the graph and the builder's counters.
build_alloc_graph(profile) ==
    LET b == BuildLoop([builder |-> GraphBuilder, nodes |-> EmptyMap],
                       profile.allocs)
    IN [graph |-> [nodes |-> b.nodes,
                   type_name_by_address |-> profile.type_name_by_address],
        cache_hits |-> b.builder.cache_hits,
        cache_misses |-> b.builder.cache_misses]

\* alloc_graph_serialize(out, graph): the statements between "digraph {"
\* and "}", as a set (the order in which an unordered_map is walked is
\* not modelled here); a label stands for its text quoted by
\* print_str_escape_dot.  Every type of an allocation edge has been
\* registered by the hook.
alloc_graph_serialize(g) ==
    {<<"node", label,
       IF g.nodes[label].is_native THEN "darksalmon" ELSE "thistle">> :
         label \in DOMAIN g.nodes}
    \cup {<<"type", g.type_name_by_address[t]>> :
              t \in DOMAIN g.type_name_by_address}
    \cup UNION {{<<"call", label, to, g.nodes[label].calls_out[to]>> :
                     to \in DOMAIN g.nodes[label].calls_out} :
                    label \in DOMAIN g.nodes}
    \cup UNION {{<<"alloc", label, g.type_name_by_address[t],
                   g.nodes[label].allocs_by_type_address[t]>> :
                     t \in DOMAIN g.nodes[label].allocs_by_type_address} :
                    label \in DOMAIN g.nodes}

\* jl_start_alloc_profile(stream) of part_004.
jl_start_alloc_profile_Raw(g, stream) ==
    [g EXCEPT !.g_alloc_profile_out = stream, !.g_alloc_profile = 1,
              !.profile = AllocProfile_Raw]

\* jl_stop_alloc_profile() of part_004.
jl_stop_alloc_profile_Raw(g) ==
    LET built == build_alloc_graph(g.profile) IN
    [g EXCEPT !.graph = built.graph,
              !.cache_hits = built.cache_hits,
              !.cache_misses = built.cache_misses,
              !.stream = alloc_graph_serialize(built.graph),
              !.g_alloc_profile_out = "nullptr",
              !.g_alloc_profile = 0]

\* register_type_string(type) of part_004.
register_type_string_Raw(profile, type) ==
    IF type \in DOMAIN profile.type_name_by_address THEN profile
    ELSE [profile EXCEPT !.type_name_by_address =
              MapPut(@, type, _type_as_string(type))]

\* _record_allocated_value(val) of part_004, with the backtrace get_stack
\* returns.
record_allocated_value_Raw(g, type, raw_backtrace) ==
    [g EXCEPT !.profile =
        [register_type_string_Raw(g.profile, type) EXCEPT
            !.allocs = Append(@, [backtrace |-> raw_backtrace,
                                  type_id |-> type])]]

SkipInit ==
    /\ memo = SkipGlobals
    /\ obs = [last_op |-> "init", starts |-> 0, calls |-> 0,
              allocs |-> <<>>]
    /\ sampler = SamplerGlobals
    /\ trie = TrieGlobals
    /\ graph = GraphGlobals
    /\ json = JsonGlobals
    /\ pc = NoThreads

SkipStartStep ==
    \E stream \in {"ios"} :
        /\ obs.starts < MaxStarts
        /\ memo' = jl_start_alloc_profile_Raw(memo, stream)
        /\ obs' = [obs EXCEPT !.last_op = "start", !.starts = @ + 1]
        /\ UNCHANGED <<NotMemo, pc>>

\* The hook, called while a session is active (g_alloc_profile is
\* dereferenced).
SkipAllocStep ==
    \E type \in TypeAddresses, raw_backtrace \in SkipRawStacks :
        /\ memo.g_alloc_profile # 0
        /\ obs.calls < MaxCalls
        /\ memo' = record_allocated_value_Raw(memo, type, raw_backtrace)
        /\ obs' = [obs EXCEPT !.last_op = "alloc", !.calls = @ + 1]
        /\ UNCHANGED <<NotMemo, pc>>

\* jl_stop_alloc_profile of an active session.
SkipStopStep ==
    /\ memo.g_alloc_profile # 0
    /\ memo' = jl_stop_alloc_profile_Raw(memo)
    /\ obs' = [obs EXCEPT !.last_op = "stop",
                          !.allocs = memo.profile.allocs]
    /\ UNCHANGED <<NotMemo, pc>>

SkipNext == SkipStartStep \/ SkipAllocStep \/ SkipStopStep

SpecSkip == SkipInit /\ [][SkipNext]_vars

\* The frames of positions first and later of a sequence of frames.
FramesFrom(frames, first) == SubSeq(frames, first, Len(frames))

\* The function names of a sequence of frames.
FuncNames(frames) == {frames[k].func_name : k \in 1..Len(frames)}

\* C30 (skipped frames): record_alloc skips the first SKIP_FRAMES resolved
\* frames at the start of the whole sample's stack only; every later
\* frame of the sample, whichever raw entry it was resolved from, has a
\* node in the call graph.
C30_OnlyLeadingFramesSkipped ==
    obs.last_op = "stop" =>
        \A i \in 1..Len(obs.allocs) :
            FuncNames(FramesFrom(ResolveTrace(obs.allocs[i].backtrace, TRUE),
                                 SKIP_FRAMES + 1))
                \subseteq DOMAIN memo.graph.nodes

\* What record_alloc does: the first SKIP_FRAMES frames of every raw
\* entry are skipped, and the nodes of the graph are the later frames of
\* the entries.
RECURSIVE LaterFramesOfEntries(_)
LaterFramesOfEntries(stack) ==
    IF stack = <<>> THEN {}
    ELSE FuncNames(FramesFrom(ResolveEntry(Head(stack)), SKIP_FRAMES + 1))
             \cup LaterFramesOfEntries(Tail(stack))

C30_LeadingFramesOfEveryEntrySkipped ==
    obs.last_op = "stop" =>
        DOMAIN memo.graph.nodes =
            UNION {LaterFramesOfEntries(obs.allocs[i].backtrace) :
                       i \in 1..Len(obs.allocs)}

(***************************************************************************)
(* SpecHeap: the sampling revision (src/unnamed/part_002) driven by a      *)
(* heap: a value is allocated at an address that is not in use and freed   *)
(* once, after which the address can be handed out again.  obs.live is     *)
(* the set of addresses in use.                                            *)
(***************************************************************************)
HeapInit ==
    /\ sampler = SamplerGlobals
    /\ obs = [last_op |-> "init", starts |-> 0, calls |-> 0, live |-> {}]
    /\ memo = MemoGlobals
    /\ json = JsonGlobals
    /\ trie = TrieGlobals
    /\ graph = GraphGlobals
    /\ pc = NoThreads

HeapStartStep ==
    \E k \in 0..MaxSkip :
        /\ obs.starts < MaxStarts
        /\ sampler' = jl_start_alloc_profile(sampler, k)
        /\ obs' = [obs EXCEPT !.last_op = "start", !.starts = @ + 1]
        /\ UNCHANGED <<NotSampler, pc>>

HeapStopStep ==
    /\ sampler' = jl_stop_and_write_alloc_profile(sampler)
    /\ obs' = [obs EXCEPT !.last_op = "stop"]
    /\ UNCHANGED <<NotSampler, pc>>

\* The allocator hands out an address that is not in use and calls the
\* hook.
HeapAllocStep ==
    \E val \in ValueAddresses \ obs.live, type \in TypeAddresses,
       stack \in RawStacks :
        /\ obs.calls < MaxCalls
        /\ sampler' = record_allocated_value(sampler, val, type,
                                             SizeOfType(type), stack)
        /\ obs' = [obs EXCEPT !.last_op = "alloc", !.calls = @ + 1,
                              !.live = @ \cup {val}]
        /\ UNCHANGED <<NotSampler, pc>>

\* The collector frees a value that is in use and calls the hook.
HeapFreeStep ==
    \E val \in obs.live :
        /\ obs.calls < MaxCalls
        /\ sampler' = record_freed_value(sampler, val)
        /\ obs' = [obs EXCEPT !.last_op = "free", !.calls = @ + 1,
                              !.live = @ \ {val}]
        /\ UNCHANGED <<NotSampler, pc>>

HeapNext == HeapStartStep \/ HeapStopStep \/ HeapAllocStep \/ HeapFreeStep

SpecHeap == HeapInit /\ [][HeapNext]_vars

\* The recorded allocations of a type.
RecordedOf(profile, t) ==
    Cardinality({i \in 1..Len(profile.allocs) :
                     profile.allocs[i].type_address = t})

\* C32 (frees against allocations): whatever allocations and frees
\* happen, an address being reused by an allocation that was not sampled
\* included, the frees counted for a type never exceed the recorded
\* allocations of the type.
C32_FreesNeverExceedRecorded ==
    \A t \in TypeAddresses :
        FreesOf(sampler.g_alloc_profile, t)
            <= RecordedOf(sampler.g_alloc_profile, t)

(***************************************************************************)
(* SpecProfile: profile(f, skip_every) of src/unnamed/part_009, lines      *)
(* 87-92, with start and stop of lines 52-65 and decode of lines 105-137,  *)
(* over the hook of src/unnamed/part_003, lines 1-110.  The state is in    *)
(* json as in SpecDecode.  obs.stage tells where control is: with the      *)
(* caller of profile, or inside f; obs.outcome how the last call of        *)
(* profile ended.                                                          *)
(***************************************************************************)
\* The type load_type gives for a tag below TYPE_PTR_THRESHOLD.
Missing == 0

\* load_type(ptr): Missing below TYPE_PTR_THRESHOLD = 0x0000000100000000,
\* which is 65536 * 65536; else the type at the address.
load_type(ptr) == IF ptr \div 65536 < 65536 THEN Missing ELSE ptr

\* size = 42 # TODO: sometimes getting corrupt values here
DecodedSize_Tagged == 42

\* The loop of decode of part_009 from raw allocation i on.
RECURSIVE DecodeLoop_Tagged(_, _, _)
DecodeLoop_Tagged(raw_results, cache, i) ==
    IF i > Len(raw_results.alloc_bts) THEN <<>>
    ELSE LET bt == raw_results.alloc_bts[i]
             type == load_type(raw_results.alloc_types[i])
             memoized == stacktrace_memoized(cache, bt, TRUE)
         IN <<Alloc(type, memoized.stack, DecodedSize_Tagged)>>
                \o DecodeLoop_Tagged(raw_results, memoized.cache, i + 1)

\* The @assert of decode of part_009.
DecodeAssertion_Tagged(raw_results) ==
    /\ Len(raw_results.alloc_bts) = Len(raw_results.alloc_bt2s)
    /\ Len(raw_results.alloc_bt2s) = Len(raw_results.alloc_types)
    /\ Len(raw_results.alloc_types) = Len(raw_results.alloc_sizes)

\* decode(raw_results) of part_009, past its @assert.
decode_Tagged(raw_results) ==
    [allocs |-> DecodeLoop_Tagged(raw_results, EmptyMap, 1),
     frees |-> EmptyMap]

\* The backtraces of the hook in this specification: native entries.
ProfileRawStacks == {<<1>>, <<2, 1>>}

ProfileInit ==
    /\ json = DecodeGlobals
    /\ obs = [last_op |-> "init", starts |-> 0, calls |-> 0,
              stage |-> "caller", outcome |-> "none"]
    /\ sampler = SamplerGlobals
    /\ trie = TrieGlobals
    /\ graph = GraphGlobals
    /\ memo = MemoGlobals
    /\ pc = NoThreads

\* profile(f, skip_every) is called: AllocProfile.start(skip_every), and
\* control enters f.
ProfileCallStep ==
    \E skip_every \in {0, MaxSkip} :
        /\ obs.stage = "caller"
        /\ obs.starts < MaxStarts
        /\ json' = start_Julia(json, skip_every)
        /\ obs' = [obs EXCEPT !.last_op = "call", !.starts = @ + 1,
                              !.stage = "in_f", !.outcome = "none"]
        /\ UNCHANGED <<NotJson, pc>>

\* An allocation, by f or by the caller.
ProfileAllocStep ==
    \E type \in TypeAddresses, bt_data \in ProfileRawStacks :
        /\ obs.calls < MaxCalls
        /\ json' = record_allocated_value_Julia(json, type,
                                                SizeOfType(type), bt_data)
        /\ obs' = [obs EXCEPT !.last_op = "alloc", !.calls = @ + 1]
        /\ UNCHANGED <<NotJson, pc>>

\* f returns: AllocProfile.stop(), then decode(g_profile[]), whose
\* assertion may throw, and (res, results) is returned.
ProfileReturnStep ==
    /\ obs.stage = "in_f"
    /\ json' =
           LET stopped == stop_Julia(json) IN
           IF DecodeAssertion_Tagged(stopped.g_profile)
           THEN [stopped EXCEPT !.decoded = "ok",
                                !.results = decode_Tagged(stopped.g_profile)]
           ELSE [stopped EXCEPT !.decoded = "AssertionError"]
    /\ obs' = [obs EXCEPT !.last_op = "return", !.stage = "caller",
                          !.outcome = IF json'.decoded = "ok"
                                      THEN "returned" ELSE "threw"]
    /\ UNCHANGED <<NotJson, pc>>

\* f throws: profile has no handler, the exception leaves profile at
\* res = f() and reaches the caller.
ProfileThrowStep ==
    /\ obs.stage = "in_f"
    /\ json' = json
    /\ obs' = [obs EXCEPT !.last_op = "throw", !.stage = "caller",
                          !.outcome = "threw"]
    /\ UNCHANGED <<NotJson, pc>>

ProfileNext ==
    \/ ProfileCallStep \/ ProfileAllocStep
    \/ ProfileReturnStep \/ ProfileThrowStep

SpecProfile == ProfileInit /\ [][ProfileNext]_vars

\* C37 (profile ends its session): whenever control is back with the
\* caller of profile(f, skip_every), f having returned or thrown, the
\* profiler is stopped: the enabled flag is clear.
C37_ProfileAlwaysStops ==
    (obs.stage = "caller" /\ obs.outcome # "none")
        => ~json.g_alloc_profile_enabled

\* What does hold: when f has returned, the profiler is stopped by the
\* time profile is left, whether decode then succeeds or throws.
C37_ProfileStopsWhenFReturns ==
    (obs.stage = "caller" /\ obs.last_op = "return")
        => ~json.g_alloc_profile_enabled

(***************************************************************************)
(* SpecTypeinf: the type inference profiling of                            *)
(* src/src/gc-heap-snapshot.h, lines 117-173, called from two threads.     *)
(* memo holds typeinf_profiling_lock, a jl_mutex_t (its owner, 0 when      *)
(* free, and its count: the owner may lock again), and                     *)
(* inference_profiling_results_array; pc[t] is the position of thread t:   *)
(* outside the two functions, at the JL_LOCK of one of them, or past it.   *)
(* obs counts the calls and the returns of clear_and_fetch at line 143.    *)
(***************************************************************************)
TypeinfThreads == {1, 2}

Timings == {1, 2}

\* typeinf_profiling_lock and inference_profiling_results_array as the
\* loader leaves them: zeroed.
TypeinfGlobals ==
    [typeinf_profiling_lock |-> [owner |-> 0, count |-> 0],
     inference_profiling_results_array |-> [null |-> TRUE, data |-> <<>>]]

\* JL_LOCK can proceed for thread self: the lock is free or its own.
CanLock(lock, self) == lock.owner \in {0, self}

\* JL_LOCK(&lock) by thread self, once it can proceed.
JL_LOCK(lock, self) == [owner |-> self, count |-> lock.count + 1]

\* JL_UNLOCK(&lock): the owner gives the lock up at count 0.
JL_UNLOCK(lock) ==
    IF lock.count = 1 THEN [owner |-> 0, count |-> 0]
    ELSE [lock EXCEPT !.count = @ - 1]

\* jl_typeinf_profiling_clear_and_fetch past its JL_LOCK: the globals at
\* its return and the array it returns.
jl_typeinf_profiling_clear_and_fetch(g) ==
    IF g.inference_profiling_results_array.null
    THEN [globals |-> g, out |-> <<>>, early |-> TRUE]
    ELSE [globals |->
              [g EXCEPT !.inference_profiling_results_array.data = <<>>,
                        !.typeinf_profiling_lock = JL_UNLOCK(@)],
          out |-> g.inference_profiling_results_array.data,
          early |-> FALSE]

\* jl_typeinf_profiling_push_timing past its JL_LOCK.
jl_typeinf_profiling_push_timing(g, timing) ==
    LET array == IF g.inference_profiling_results_array.null
                 THEN [null |-> FALSE, data |-> <<>>]
                 ELSE g.inference_profiling_results_array
    IN [g EXCEPT !.inference_profiling_results_array =
                     [array EXCEPT !.data = Append(@, timing)],
                 !.typeinf_profiling_lock = JL_UNLOCK(@)]

TypeinfInit ==
    /\ memo = TypeinfGlobals
    /\ pc = [t \in TypeinfThreads |-> [at |-> "outside", timing |-> 0]]
    /\ obs = [last_op |-> "init", calls |-> 0, early_returns |-> 0,
              out |-> <<>>]
    /\ sampler = SamplerGlobals
    /\ trie = TrieGlobals
    /\ graph = GraphGlobals
    /\ json = JsonGlobals

\* Thread t calls jl_typeinf_profiling_clear_and_fetch and is at its
\* JL_LOCK.
TypeinfCallFetchStep(t) ==
    /\ pc[t].at = "outside"
    /\ obs.calls < MaxCalls
    /\ pc' = [pc EXCEPT ![t] = [at |-> "fetch_lock", timing |-> 0]]
    /\ obs' = [obs EXCEPT !.last_op = "call_fetch", !.calls = @ + 1]
    /\ UNCHANGED <<NotMemo, memo>>

\* Thread t calls jl_typeinf_profiling_push_timing(timing) and is at its
\* JL_LOCK.
TypeinfCallPushStep(t) ==
    \E timing \in Timings :
        /\ pc[t].at = "outside"
        /\ obs.calls < MaxCalls
        /\ pc' = [pc EXCEPT ![t] = [at |-> "push_lock", timing |-> timing]]
        /\ obs' = [obs EXCEPT !.last_op = "call_push", !.calls = @ + 1]
        /\ UNCHANGED <<NotMemo, memo>>

\* The JL_LOCK thread t is at succeeds.
TypeinfLockStep(t) ==
    /\ pc[t].at \in {"fetch_lock", "push_lock"}
    /\ CanLock(memo.typeinf_profiling_lock, t)
    /\ memo' = [memo EXCEPT !.typeinf_profiling_lock = JL_LOCK(@, t)]
    /\ pc' = [pc EXCEPT ![t].at = IF pc[t].at = "fetch_lock"
                                   THEN "fetch_locked" ELSE "push_locked"]
    /\ obs' = [obs EXCEPT !.last_op = "lock"]
    /\ UNCHANGED NotMemo

\* Thread t runs clear_and_fetch from its JL_LOCK to its return.
TypeinfFetchStep(t) ==
    /\ pc[t].at = "fetch_locked"
    /\ LET r == jl_typeinf_profiling_clear_and_fetch(memo) IN
           /\ memo' = r.globals
           /\ obs' = [obs EXCEPT !.last_op = "fetch", !.out = r.out,
                                 !.early_returns =
                                     IF r.early THEN 1 ELSE @]
    /\ pc' = [pc EXCEPT ![t] = [at |-> "outside", timing |-> 0]]
    /\ UNCHANGED NotMemo

\* Thread t runs push_timing from its JL_LOCK to its return.
TypeinfPushStep(t) ==
    /\ pc[t].at = "push_locked"
    /\ memo' = jl_typeinf_profiling_push_timing(memo, pc[t].timing)
    /\ pc' = [pc EXCEPT ![t] = [at |-> "outside", timing |-> 0]]
    /\ obs' = [obs EXCEPT !.last_op = "push"]
    /\ UNCHANGED NotMemo

\* What thread t does by itself once it has called: lock, then the body.
TypeinfRun(t) ==
    TypeinfLockStep(t) \/ TypeinfFetchStep(t) \/ TypeinfPushStep(t)

TypeinfNext ==
    \E t \in TypeinfThreads :
        \/ TypeinfCallFetchStep(t) \/ TypeinfCallPushStep(t)
        \/ TypeinfLockStep(t)
        \/ TypeinfFetchStep(t) \/ TypeinfPushStep(t)

\* Every thread that can take a step of a call it is in takes it.
SpecTypeinf ==
    /\ TypeinfInit /\ [][TypeinfNext]_vars
    /\ \A t \in TypeinfThreads : WF_vars(TypeinfRun(t))

\* C38 (the lock is released on every return path): a thread at the
\* JL_LOCK of jl_typeinf_profiling_push_timing or of
\* jl_typeinf_profiling_clear_and_fetch eventually acquires
\* typeinf_profiling_lock.
C38_WaitingThreadAcquiresLock ==
    \A t \in TypeinfThreads :
        (pc[t].at \in {"fetch_lock", "push_lock"})
            ~> (pc[t].at \in {"fetch_locked", "push_locked"})

\* What does hold: the lock is left held by a thread that is outside the
\* two functions only after clear_and_fetch returned at its first return,
\* with the results array still null.
C38_LockKeptOnlyByEarlyReturn ==
    \A t \in TypeinfThreads :
        (memo.typeinf_profiling_lock.owner = t /\ pc[t].at = "outside")
            => obs.early_returns = 1

(***************************************************************************)
(* SpecStrings: struct StringTable of src/unnamed/part_002, lines          *)
(* 115-155.  json holds one table (map from a string to its id, and the    *)
(* vector strings) and what print_json_array last wrote; a string is its   *)
(* sequence of bytes.  obs keeps the initializer list the table was built  *)
(* from, the key of the last find_or_create_string_id and the id it        *)
(* returned.                                                               *)
(***************************************************************************)
MaxListLen == 3

\* The strings of the model: a, n, and a quote (which is escaped).
StringKeys == {<<97>>, <<110>>, <<34>>}

\* The initializer lists: every list of at most MaxListLen strings.
InitializerLists == UNION {[1..n -> StringKeys] : n \in 0..MaxListLen}

\* The for loop of the constructor: map.insert({str, map.size()}) leaves
\* the map alone when str is a key already.
RECURSIVE InsertAll(_, _)
InsertAll(map, strs) ==
    IF strs = <<>> THEN map
    ELSE LET str == Head(strs)
             next == IF str \in DOMAIN map THEN map
                     ELSE MapPut(map, str, Cardinality(DOMAIN map))
         IN InsertAll(next, Tail(strs))

\* StringTable(std::initializer_list<string> strs) : strings(strs); the
\* empty list gives what StringTable() gives.
StringTable(strs) == [map |-> InsertAll(EmptyMap, strs), strings |-> strs]

\* A variant that inserts the key and does not push it onto strings.
find_or_create_string_id_NoPush(table, key) ==
    IF key \in DOMAIN table.map
    THEN [table |-> table, id |-> table.map[key]]
    ELSE [table |-> [table EXCEPT
                         !.map = MapPut(@, key, Cardinality(DOMAIN @))],
          id |-> Cardinality(DOMAIN table.map)]

\* find_or_create_string_id(key): the table after the call and the id
\* returned.
find_or_create_string_id(table, key) ==
    IF key \in DOMAIN table.map
    THEN [table |-> table, id |-> table.map[key]]
    ELSE [table |-> [map |-> MapPut(table.map, key,
                                   Cardinality(DOMAIN table.map)),
                     strings |-> Append(table.strings, key)],
          id |-> Cardinality(DOMAIN table.map)]

\* print_json_array: one object per element of strings, with the id
\* counted from 0 and the string as print_str_escape_json writes it.
print_json_array(table) ==
    [i \in 1..Len(table.strings) |->
        [id |-> i - 1, text |-> print_str_escape_json(table.strings[i])]]

StringsInit ==
    /\ \E strs \in InitializerLists :
           /\ json = [table |-> StringTable(strs), stream |-> <<>>]
           /\ obs = [last_op |-> "init", calls |-> 0, strs |-> strs,
                     key |-> <<>>, id |-> 0]
    /\ sampler = SamplerGlobals
    /\ trie = TrieGlobals
    /\ graph = GraphGlobals
    /\ memo = MemoGlobals
    /\ pc = NoThreads

FindOrCreateStep ==
    \E key \in StringKeys :
        /\ obs.calls < MaxCalls
        /\ LET r == find_or_create_string_id(json.table, key) IN
               /\ json' = [json EXCEPT !.table = r.table]
               /\ obs' = [obs EXCEPT !.last_op = "find", !.calls = @ + 1,
                                     !.key = key, !.id = r.id]
        /\ UNCHANGED <<NotJson, pc>>

PrintJsonArrayStep ==
    /\ obs.calls < MaxCalls
    /\ json' = [json EXCEPT !.stream = print_json_array(json.table)]
    /\ obs' = [obs EXCEPT !.last_op = "print", !.calls = @ + 1]
    /\ UNCHANGED <<NotJson, pc>>

StringsNext == FindOrCreateStep \/ PrintJsonArrayStep

SpecStrings == StringsInit /\ [][StringsNext]_vars

\* No string occurs twice in the list.
Distinct(strs) ==
    \A i, j \in 1..Len(strs) : strs[i] = strs[j] => i = j

\* strings[map[k]] == k for every key k, map.size() == strings.size(), and
\* print_json_array prints every key under its id.
TableConsistent(table) ==
    /\ Cardinality(DOMAIN table.map) = Len(table.strings)
    /\ \A k \in DOMAIN table.map :
           /\ table.map[k] + 1 \in 1..Len(table.strings)
           /\ table.strings[table.map[k] + 1] = k
           /\ print_json_array(table)[table.map[k] + 1] =
                  [id |-> table.map[k], text |-> print_str_escape_json(k)]

\* The id find_or_create_string_id last returned is the id of its key in
\* the map, and the one print_json_array prints the key under.
ReturnedIdIsPrinted ==
    obs.last_op = "find" =>
        /\ obs.key \in DOMAIN json.table.map
        /\ json.table.map[obs.key] = obs.id
        /\ \A i \in 1..Len(json.table.strings) :
               print_json_array(json.table)[i].text =
                   print_str_escape_json(obs.key)
                   => print_json_array(json.table)[i].id = obs.id

\* C39 (as stated): for every StringTable, built from any initializer list
\* and by find_or_create_string_id calls, strings[map[k]] == k for each key
\* k, map.size() == strings.size(), and the id returned for a string is the
\* id print_json_array prints for it.
C39_EveryTableIsConsistent ==
    TableConsistent(json.table) /\ ReturnedIdIsPrinted

\* C39 (amended): for every StringTable built from an initializer list
\* without repeated strings (the empty one included) and by
\* find_or_create_string_id calls, strings[map[k]] == k for each key k,
\* map.size() == strings.size(), and the id returned for a string is the
\* id print_json_array prints for it.
C39_DistinctListTableIsConsistent ==
    Distinct(obs.strs) =>
        (TableConsistent(json.table) /\ ReturnedIdIsPrinted)

\* A table built from a list of two different strings, to which
\* find_or_create_string_id has just added a third under id 2.
C39_Witness ==
    /\ obs.last_op = "find"
    /\ Len(obs.strs) = 2
    /\ Distinct(obs.strs)
    /\ obs.id = 2
    /\ Len(json.table.strings) = 3
    /\ json.table.map[obs.key] = 2

=============================================================================
